---- MODULE Spec2Model ----
(***************************************************************************)
(* Model of the daily aggregation engine of NutriTrack                     *)
(* (src/services/db.ts, src/utils/dateUtils.ts, src/utils/formatUtils.ts). *)
(*                                                                         *)
(* Numbers.  A nutrient amount is an integer count of thousandths          *)
(* (120400 is 120.4).  Math.round is round-half-up on that grid.  Binary   *)
(* floating-point error is not modelled.                                   *)
(*                                                                         *)
(* Time.  A Date is an instant: milliseconds since 2024-02-27T00:00Z.      *)
(* The local fields of a Date (getFullYear, getMonth, getDate, setHours)   *)
(* are those of the instant shifted by the timezone offset tz, which is    *)
(* fixed for a run (no daylight-saving change).                            *)
(*                                                                         *)
(* Storage.  The tables live in IndexedDB behind Dexie.  A call of         *)
(* db.transaction('rw', tables, body) starts once no open transaction has  *)
(* an overlapping table list, runs body one awaited storage request at a   *)
(* time, and either commits all writes of body or, when body throws,       *)
(* discards them.  A request inside body on a table that is not in the     *)
(* transaction's list is rejected with NotFoundError.                      *)
(*                                                                         *)
(* Calculator.  NutritionCalculator (src/components/ErrorBoundary.tsx)     *)
(* over the catalog of src/data/nutrition-db.ts.  portionGrams is a count  *)
(* of tenths of a gram (400 is 40 g), a coefficient of nutrientsPerGram a  *)
(* count of thousandths per gram, their product a count of                 *)
(* ten-thousandths.  NaN is a number of its own that every comparison      *)
(* answers with false.  A product that lies exactly halfway between two    *)
(* roundings in decimal lies, as a binary double, on either side: both     *)
(* roundings are outcomes.                                                 *)
(*                                                                         *)
(* Search and entry.  searchFoods works on real strings; an answer of the  *)
(* AI model is a list of items whose numbers are integers on the grids     *)
(* above, NaN standing for a value that holds no digit.                    *)
(*                                                                         *)
(* Import and retry.  importUserData (src/services/db.ts) is one step: its *)
(* transaction lists every table it touches.  analyzeImageWithRetry        *)
(* (src/services/aiHelper.ts) is a step per await; an error is what went   *)
(* wrong together with the message the code sees.                          *)
(***************************************************************************)
EXTENDS Integers, Sequences, FiniteSets, TLC

VARIABLES tz, now, meals, dailyLogs, userProfile, procs, undo, foods, calc,
          search, entry, chatMessages, imp, ai, apiCache

vars == <<tz, now, meals, dailyLogs, userProfile, procs, undo, foods, calc,
          search, entry, chatMessages, imp, ai, apiCache>>

\* the variables of the store and of its callers
storeVars == <<tz, now, meals, dailyLogs, userProfile, procs, undo>>

\* the variables the operations of the store never touch
otherVars == <<foods, calc, search, entry, chatMessages, imp, ai, apiCache>>

\* the variables of an import of a backup, and of a request to the AI model
importVars == <<chatMessages, imp>>
aiVars == <<ai, apiCache>>

----------------------------------------------------------------------------
(* Dates *)

MsPerDay == 24 * 60 * 60 * 1000

\* new Date(base year, base month, base date + day, 0, 0, 0, ms) in zone z
LocalInstant(day, ms, z) == day * MsPerDay + ms - z

IsLeap(y) == (y % 4 = 0 /\ y % 100 # 0) \/ y % 400 = 0

\* m0 is the 0-based month of Date.getMonth()
DaysInMonth(y, m0) ==
  IF m0 = 1 THEN (IF IsLeap(y) THEN 29 ELSE 28)
  ELSE IF m0 \in {3, 5, 8, 10} THEN 30 ELSE 31

NextCivil(c) ==
  IF c.date < DaysInMonth(c.year, c.month) THEN [c EXCEPT !.date = c.date + 1]
  ELSE IF c.month < 11 THEN [c EXCEPT !.month = c.month + 1, !.date = 1]
  ELSE [year |-> c.year + 1, month |-> 0, date |-> 1]

RECURSIVE CivilOfDay(_)
CivilOfDay(n) ==
  IF n = 0 THEN [year |-> 2024, month |-> 1, date |-> 27]
  ELSE NextCivil(CivilOfDay(n - 1))

\* Date.getFullYear / getMonth / getDate: fields of the local calendar day
LocalFields(t) == CivilOfDay((t + tz) \div MsPerDay)

\* String(n).padStart(2, '0')
PadStart2(n) == IF n < 10 THEN "0" \o ToString(n) ELSE ToString(n)

\* the day key taken from the UTC fields of the date instead of the local ones
getLocalISOStringUTC(date) ==
  LET c == CivilOfDay(date \div MsPerDay)
  IN ToString(c.year) \o "-" \o PadStart2(c.month + 1) \o "-" \o PadStart2(c.date)

getLocalISOString(date) ==
  LET year  == LocalFields(date).year
      month == PadStart2(LocalFields(date).month + 1)
      day   == PadStart2(LocalFields(date).date)
  IN ToString(year) \o "-" \o month \o "-" \o day

\* Date.setHours(h, m, s, ms) on a copy of t: same local day, given local time
SetHours(t, h, m, s, ms) ==
  (t - ((t + tz) % MsPerDay)) + ((h * 60 + m) * 60 + s) * 1000 + ms

----------------------------------------------------------------------------
(* Nutrients *)

\* Math.round on thousandths (non-negative amounts)
MathRound(x) == ((x + 500) \div 1000) * 1000

precision == 100

\* Math.round(val * precision), as a whole number of hundredths
RoundScaled(val) == (val * precision + 500) \div 1000

\* safeAdd(a, b): nums.reduce((acc, val) => acc + Math.round(val * precision), 0) / precision
safeAdd(a, b) == (((0 + RoundScaled(a)) + RoundScaled(b)) * 1000) \div precision

RECURSIVE Dedup(_, _)
\* Array.from(new Set(s)): first occurrences, in order
Dedup(s, seen) ==
  IF s = <<>> THEN <<>>
  ELSE IF Head(s) \in seen THEN Dedup(Tail(s), seen)
       ELSE <<Head(s)>> \o Dedup(Tail(s), seen \cup {Head(s)})

\* a sum that keeps only the amounts of b
sumNutrientsLast(a, b) ==
  [calories       |-> MathRound(b.calories),
   protein        |-> safeAdd(0, b.protein),
   carbs          |-> safeAdd(0, b.carbs),
   fat            |-> safeAdd(0, b.fat),
   fiber          |-> safeAdd(0, b.fiber),
   sourceDatabase |-> a.sourceDatabase,
   micros         |-> Dedup(a.micros \o b.micros, {})]

sumNutrients(a, b) ==
  LET combinedMicros == a.micros \o b.micros
      uniqueMicros   == Dedup(combinedMicros, {})
  IN [calories       |-> MathRound(a.calories + b.calories),
      protein        |-> safeAdd(a.protein, b.protein),
      carbs          |-> safeAdd(a.carbs, b.carbs),
      fat            |-> safeAdd(a.fat, b.fat),
      fiber          |-> safeAdd(a.fiber, b.fiber),
      sourceDatabase |-> a.sourceDatabase,
      micros         |-> uniqueMicros]

createZeroNutrients ==
  [calories |-> 0, protein |-> 0, carbs |-> 0, fat |-> 0, fiber |-> 0,
   sourceDatabase |-> "Custom", micros |-> <<>>]

createDefaultTargets ==
  [calories |-> 2000, protein |-> 80, carbs |-> 250, fat |-> 60, fiber |-> 30,
   micros |-> <<>>]

----------------------------------------------------------------------------
(* Food catalog and nutrition calculator *)

NaN == 0 - 2000000000

IsNaN(x) == x = NaN

Times(a, b) == IF IsNaN(a) \/ IsNaN(b) THEN NaN ELSE a * b

\* a * (n / d) for the decimal fraction n / d
TimesFrac(a, n, d) == IF IsNaN(a) THEN NaN ELSE (a * n) \div d

Plus(a, b) == IF IsNaN(a) \/ IsNaN(b) THEN NaN ELSE a + b

Minus(a, b) == IF IsNaN(a) \/ IsNaN(b) THEN NaN ELSE a - b

MathAbs(a) == IF IsNaN(a) THEN NaN ELSE IF a < 0 THEN 0 - a ELSE a

MathMax(a, b) == IF IsNaN(a) \/ IsNaN(b) THEN NaN ELSE IF a >= b THEN a ELSE b

Lt(a, b) == ~IsNaN(a) /\ ~IsNaN(b) /\ a < b

LtEq(a, b) == ~IsNaN(a) /\ ~IsNaN(b) /\ a <= b

Gt(a, b) == ~IsNaN(a) /\ ~IsNaN(b) /\ a > b

\* the multiple of unit nearest to x >= 0; halfway, the upper one when up
RoundNearest(x, unit, up) ==
  LET r == x % unit
  IN IF 2 * r < unit THEN x - r
     ELSE IF 2 * r > unit THEN x - r + unit
     ELSE IF up THEN x - r + unit ELSE x - r

\* a rounding of the calories to the nearest ten
MathRoundRawTens(raw, up) ==
  IF IsNaN(raw) THEN NaN ELSE RoundNearest(raw, 100000, up) \div 10

\* Math.round(raw) of a product in ten-thousandths, as thousandths
MathRoundRaw(raw, up) ==
  IF IsNaN(raw) THEN NaN ELSE RoundNearest(raw, 10000, up) \div 10

\* one decimal place, cut off instead of rounded
toFixed1Truncated(raw, up) ==
  IF IsNaN(raw) THEN NaN ELSE (raw - (raw % 1000)) \div 10

\* parseFloat(raw.toFixed(1)) of a product in ten-thousandths, as thousandths
toFixed1(raw, up) ==
  IF IsNaN(raw) THEN NaN ELSE RoundNearest(raw, 1000, up) \div 10

Food(id, name, nameAliases, calories, protein, carbs, fat, fiber, defaultPortionGrams) ==
  [id |-> id, name |-> name, nameAliases |-> nameAliases,
   nutrientsPerGram |-> [calories |-> calories, protein |-> protein,
                         carbs |-> carbs, fat |-> fat, fiber |-> fiber],
   defaultPortionGrams |-> defaultPortionGrams,
   source |-> "IFCT"]

\* the catalog with a wrong calorie figure for the first entry
nutritionDbWrongRoti ==
  << Food("ifct_001", "Roti (Whole Wheat)",
          <<"Chapati", "Phulka", "Wheat Bread", "Fulka">>,
          1000, 100, 600, 50, 100, 400),
     Food("ifct_002", "Dal (Moong, cooked)",
          <<"Moong Dal", "Yellow Lentil", "Green Gram Dal">>,
          1200, 80, 160, 27, 40, 1500) >>

\* nutritionDb.foods
nutritionDb ==
  << Food("ifct_001", "Roti (Whole Wheat)",
          <<"Chapati", "Phulka", "Wheat Bread", "Fulka">>,
          3000, 100, 600, 50, 100, 400),
     Food("ifct_002", "Dal (Moong, cooked)",
          <<"Moong Dal", "Yellow Lentil", "Green Gram Dal">>,
          1200, 80, 160, 27, 40, 1500),
     Food("ifct_003", "White Rice (Cooked)",
          <<"Chawal", "Steamed Rice", "Basmati Rice">>,
          1300, 27, 280, 3, 4, 1500),
     Food("ifct_004", "Paneer Curry",
          <<"Paneer Butter Masala", "Shahi Paneer", "Paneer Sabzi">>,
          2500, 120, 80, 200, 10, 2000),
     Food("ifct_005", "Banana",
          <<"Kela", "Fruit">>,
          890, 11, 228, 3, 26, 1180),
     Food("ifct_006", "Idli",
          <<"Rice Cake", "Steamed Rice Cake">>,
          1400, 60, 280, 5, 10, 600),
     Food("ifct_007", "Masala Dosa",
          <<"Dosa", "Potato Dosa">>,
          2100, 50, 320, 80, 20, 2500),
     Food("ifct_008", "Samosa",
          <<"Aloo Samosa">>,
          2600, 60, 320, 140, 20, 800),
     Food("ifct_009", "Chai (Milk Tea)",
          <<"Tea", "Masala Chai", "Milk Tea with Sugar">>,
          700, 20, 100, 20, 0, 1500),
     Food("ifct_010", "Curd (Yogurt)",
          <<"Dahi", "Yoghurt">>,
          600, 35, 45, 30, 0, 1500),
     Food("ifct_011", "Apple",
          <<"Seb", "Fruit">>,
          520, 3, 140, 2, 24, 1800),
     Food("ifct_012", "Omelette (2 eggs)",
          <<"Egg Omelet", "Anda">>,
          1500, 110, 10, 110, 0, 1200) >>

\* new Map(list.map(food => [food.id, food])): the last entry of an id wins
NewFoodsMap(list) ==
  [id \in { list[i].id : i \in 1 .. Len(list) } |->
     LET last == CHOOSE i \in 1 .. Len(list) :
                   /\ list[i].id = id
                   /\ \A j \in 1 .. Len(list) : list[j].id = id => j <= i
     IN list[last]]

NoFood == [id |-> "undefined"]

\* a lookup that falls back to some entry of the catalog
FoodsGetAny(fs, foodId) ==
  IF foodId \in DOMAIN fs THEN fs[foodId]
  ELSE fs[CHOOSE id \in DOMAIN fs : TRUE]

\* this.foods.get(foodId)
FoodsGet(fs, foodId) == IF foodId \in DOMAIN fs THEN fs[foodId] ELSE NoFood

\* the messages of the errors calculateNutrients throws
ErrFoodNotFound == "Food ID not found in database"
ErrInvalidPortion == "Invalid portion grams"
ErrSanityFailed == "Sanity check FAILED. Data corrupt."

NoNutrients == [sourceDatabase |-> "undefined"]

\* the outcome of a call: an error thrown or a value returned, and whether
\* console.warn was called
Throw(e, w) == [pc |-> "thrown", err |-> e, result |-> NoNutrients, warned |-> w]

ReturnValue(r, w) == [pc |-> "returned", err |-> "", result |-> r, warned |-> w]

\* a sanity check that throws on every warning
verifySanityStrict(nutrients, foodName) ==
  LET expectedKcal == Plus(Plus(Times(nutrients.protein, 4), Times(nutrients.carbs, 4)),
                           Times(nutrients.fat, 9))
      diff == MathAbs(Minus(nutrients.calories, expectedKcal))
      tolerance == MathMax(TimesFrac(nutrients.calories, 2, 10), 20000)
  IN IF Lt(expectedKcal, 10000) /\ Lt(nutrients.calories, 10000)
     THEN [threw |-> FALSE, warned |-> FALSE]
     ELSE [threw |-> Gt(diff, tolerance), warned |-> Gt(diff, tolerance)]

verifySanity(nutrients, foodName) ==
  LET calories == nutrients.calories
      protein  == nutrients.protein
      carbs    == nutrients.carbs
      fat      == nutrients.fat
      expectedKcal == Plus(Plus(Times(protein, 4), Times(carbs, 4)), Times(fat, 9))
      diff == MathAbs(Minus(calories, expectedKcal))
      tolerance == MathMax(TimesFrac(calories, 2, 10), 20000)
  IN IF Lt(expectedKcal, 10000) /\ Lt(calories, 10000)
     THEN [threw |-> FALSE, warned |-> FALSE]
     ELSE IF Gt(diff, tolerance)
          THEN IF Gt(diff, MathMax(TimesFrac(calories, 5, 10), 50000))
               THEN [threw |-> TRUE, warned |-> TRUE]
               ELSE [threw |-> FALSE, warned |-> TRUE]
          ELSE [threw |-> FALSE, warned |-> FALSE]

\* up: for each amount, the side a halfway product is rounded to
calculateNutrients(fs, foodId, portionGrams, up) ==
  LET food == FoodsGet(fs, foodId) IN
  IF food = NoFood THEN Throw(ErrFoodNotFound, FALSE)
  ELSE IF LtEq(portionGrams, 0) THEN Throw(ErrInvalidPortion, FALSE)
  ELSE LET nutrientsPerGram == food.nutrientsPerGram
           rawCalories == Times(nutrientsPerGram.calories, portionGrams)
           rawProtein  == Times(nutrientsPerGram.protein, portionGrams)
           rawCarbs    == Times(nutrientsPerGram.carbs, portionGrams)
           rawFat      == Times(nutrientsPerGram.fat, portionGrams)
           rawFiber    == Times(nutrientsPerGram.fiber, portionGrams)
           result == [calories |-> MathRoundRaw(rawCalories, up.calories),
                      protein  |-> toFixed1(rawProtein, up.protein),
                      carbs    |-> toFixed1(rawCarbs, up.carbs),
                      fat      |-> toFixed1(rawFat, up.fat),
                      fiber    |-> toFixed1(rawFiber, up.fiber),
                      sourceDatabase |-> food.source]
           sanity == verifySanity(result, food.name)
       IN IF sanity.threw THEN Throw(ErrSanityFailed, sanity.warned)
          ELSE ReturnValue(result, sanity.warned)

\* s[i] as a string of one character
CharAt(s, i) == SubSeq(s, i, i)

UpperCaseLetters == "ABCDEFGHIJKLMNOPQRSTUVWXYZ"
LowerCaseLetters == "abcdefghijklmnopqrstuvwxyz"

\* String.prototype.toLowerCase on one character of the Latin alphabet
LowerChar(c) ==
  IF \E i \in 1 .. 26 : CharAt(UpperCaseLetters, i) = c
  THEN CharAt(LowerCaseLetters,
              CHOOSE i \in 1 .. 26 : CharAt(UpperCaseLetters, i) = c)
  ELSE c

RECURSIVE toLowerCase(_)
toLowerCase(s) ==
  IF s = "" THEN ""
  ELSE LowerChar(CharAt(s, 1)) \o toLowerCase(SubSeq(s, 2, Len(s)))

\* the characters \s stands for and trim removes
IsWhiteSpace(c) == c \in {" ", "\t", "\n"}

\* a trim that leaves the string as it is
trimNothing(s) == s

\* String.prototype.trim
trim(s) ==
  LET kept == { i \in 1 .. Len(s) : ~IsWhiteSpace(CharAt(s, i)) } IN
  IF kept = {} THEN ""
  ELSE LET first == CHOOSE i \in kept : \A j \in kept : i <= j
           last  == CHOOSE i \in kept : \A j \in kept : j <= i
       IN SubSeq(s, first, last)

\* s.split(/\s+/): the pieces between the runs of whitespace; a run at an
\* end of s leaves an empty piece there
RECURSIVE splitWhiteSpace(_)
splitWhiteSpace(s) ==
  LET spaces == { i \in 1 .. Len(s) : IsWhiteSpace(CharAt(s, i)) } IN
  IF spaces = {} THEN <<s>>
  ELSE LET i == CHOOSE k \in spaces : \A l \in spaces : k <= l
           rest == { k \in i .. Len(s) : ~IsWhiteSpace(CharAt(s, k)) }
           j == IF rest = {} THEN Len(s) + 1
                ELSE CHOOSE k \in rest : \A l \in rest : k <= l
       IN <<SubSeq(s, 1, i - 1)>> \o splitWhiteSpace(SubSeq(s, j, Len(s)))

\* String.prototype.includes
includes(s, t) ==
  \E i \in 1 .. (Len(s) - Len(t) + 1) : SubSeq(s, i, i + Len(t) - 1) = t

\* Array.prototype.slice(begin, end) for 0 <= begin <= end
slice(list, begin, end) ==
  SubSeq(list, begin + 1, IF end < Len(list) THEN end ELSE Len(list))

\* queryTokens.every(token => name.includes(token))
nameMatch(f, queryTokens) ==
  LET name == toLowerCase(f.name) IN
  \A t \in 1 .. Len(queryTokens) : includes(name, queryTokens[t])

\* a match that takes each token from any of the aliases
aliasMatchJoint(f, queryTokens) ==
  \A t \in 1 .. Len(queryTokens) :
    \E a \in 1 .. Len(f.nameAliases) :
      includes(toLowerCase(f.nameAliases[a]), queryTokens[t])

\* f.nameAliases.some(alias => queryTokens.every(...))
aliasMatch(f, queryTokens) ==
  \E a \in 1 .. Len(f.nameAliases) :
    LET aliasLower == toLowerCase(f.nameAliases[a]) IN
    \A t \in 1 .. Len(queryTokens) : includes(aliasLower, queryTokens[t])

\* NutritionCalculator.searchFoods
searchFoods(query) ==
  LET q == trim(toLowerCase(query)) IN
  IF q = "" THEN <<>>
  ELSE LET queryTokens == splitWhiteSpace(q)
           Keep(f) == IF nameMatch(f, queryTokens) THEN TRUE
                      ELSE aliasMatch(f, queryTokens)
       IN slice(SelectSeq(nutritionDb, Keep), 0, 10)


\* parseFloat(String(val).replace(/[^0-9.]/g, '')): the digits of val, which
\* lose a minus sign; NaN when val holds no digit
parseDigits(val) == MathAbs(val)

\* cleanNum of captureAndDetect
cleanNum(val) ==
  LET n == parseDigits(val) IN IF IsNaN(n) THEN 0 ELSE n

\* item.micros || []
MicrosOf(item) == item.micros

\* a MealItem; its id and the tail of an 'ai_' foodId are random and left out,
\* portionLabel is kept as the two parts of `${grams}g ${name}`
MealItem(foodId, portionGrams, name, nutrients, confidence, manuallyAdded) ==
  [foodId |-> foodId, portionGrams |-> portionGrams,
   portionLabel |-> [grams |-> portionGrams, name |-> name],
   nutrients |-> nutrients, confidence |-> confidence,
   manuallyAdded |-> manuallyAdded]

\* { ...nutrients, micros }
WithMicros(nutrients, micros) ==
  [calories |-> nutrients.calories, protein |-> nutrients.protein,
   carbs |-> nutrients.carbs, fat |-> nutrients.fat, fiber |-> nutrients.fiber,
   sourceDatabase |-> nutrients.sourceDatabase, micros |-> micros]

\* what one pass of a loop over rawJson does: it throws, or pushes the items
\* of `push`
Thrown == [threw |-> TRUE, push |-> <<>>]
Pushed(list) == [threw |-> FALSE, push |-> list]

\* the MealItem for a catalog match: nutrients from calculateNutrients
MatchedItem(food, grams, item, up) ==
  LET out == calculateNutrients(foods, food.id, grams, up) IN
  IF out.pc = "thrown" THEN Thrown
  ELSE Pushed(<<MealItem(food.id, grams, food.name,
                         WithMicros(out.result, MicrosOf(item)), "high",
                         FALSE)>>)

\* captureAndDetect of src/unnamed/part_008: one pass of the loop
detectItemPart008(item, up) ==
  LET grams == IF cleanNum(item.grams) = 0 THEN 1000 ELSE cleanNum(item.grams)
      matches == searchFoods(item.name)
  IN IF Len(matches) > 0
     THEN MatchedItem(matches[1], grams, item, up)
     ELSE Pushed(<<MealItem("ai_", grams, item.name,
                            [calories |-> cleanNum(item.calories),
                             protein |-> cleanNum(item.protein),
                             carbs |-> cleanNum(item.carbs),
                             fat |-> cleanNum(item.fat),
                             fiber |-> cleanNum(item.fiber),
                             micros |-> MicrosOf(item),
                             sourceDatabase |-> "AI"],
                            "medium", FALSE)>>)

\* captureAndDetect of src/components/CameraScanner.tsx: one pass of the loop
detectItem(item, up) ==
  LET matches == searchFoods(item.name)
      parsed == parseDigits(item.grams)
      grams == IF IsNaN(parsed) \/ LtEq(parsed, 0)
               THEN IF Len(matches) > 0 THEN matches[1].defaultPortionGrams
                    ELSE 1000
               ELSE parsed
  IN IF Len(matches) > 0 THEN MatchedItem(matches[1], grams, item, up)
     ELSE Pushed(<<>>)

\* analyzeWithAI of ManualEntryModal: the MealItem made of one item of rawJson
analyzedItem(item) ==
  Pushed(<<MealItem("ai_", item.grams, item.name,
                    [calories |-> item.calories, protein |-> item.protein,
                     carbs |-> item.carbs, fat |-> item.fat,
                     fiber |-> item.fiber, micros |-> MicrosOf(item),
                     sourceDatabase |-> "AI"],
                    "medium", TRUE)>>)

RECURSIVE Concat(_)
Concat(lists) ==
  IF lists = <<>> THEN <<>> ELSE Head(lists) \o Concat(Tail(lists))

\* the loop over rawJson: the first pass that throws ends it
Detected(passes) ==
  IF \E i \in 1 .. Len(passes) : passes[i].threw
  THEN [threw |-> TRUE, items |-> <<>>]
  ELSE [threw |-> FALSE,
        items |-> Concat([i \in 1 .. Len(passes) |-> passes[i].push])]

----------------------------------------------------------------------------
(* Inputs *)

\* the calls that may be in progress at the same time
Procs == {1, 2}

\* number of times the clock moves on
MaxTicks == 1
TickMs == 16 * 60 * 60 * 1000

\* local minus UTC: -10:00, +05:30
TzOffsets == {0 - 10 * 3600000, 5 * 3600000 + 1800000}

\* the first reading of the clock: 08:00 local time on 2024-02-29
StartInstant(z) == LocalInstant(2, 8 * 3600000, z)

NutA == [calories |-> 120400, protein |-> 4125, carbs |-> 24000, fat |-> 2000,
         fiber |-> 4000, sourceDatabase |-> "IFCT", micros |-> <<"Iron", "Iron">>]
NutB == [calories |-> 250500, protein |-> 100, carbs |-> 30250, fat |-> 9375,
         fiber |-> 0, sourceDatabase |-> "AI", micros |-> <<"Zinc", "Iron">>]
NutC == [calories |-> 80000, protein |-> 100, carbs |-> 10000, fat |-> 1000,
         fiber |-> 500, sourceDatabase |-> "IFCT", micros |-> <<>>]

\* meals a caller may pass: id, local day (days after 2024-02-27), local time
\* of day in ms, totals
MealSpecs ==
  { [id |-> "a", day |-> 2, ms |-> 15 * 60000,           tot |-> NutA],
    [id |-> "c", day |-> 2, ms |-> 24 * 3600000 - 1,     tot |-> NutB],
    [id |-> "d", day |-> 3, ms |-> 15 * 60000,           tot |-> NutC] }

MealOf(s) == [id |-> s.id, timestamp |-> LocalInstant(s.day, s.ms, tz),
              totalNutrients |-> s.tot]

MealPool == { MealOf(s) : s \in MealSpecs }

\* ids a caller may pass to deleteMeal
MealIds == {"a", "c", "zz"}

TargetsA == [calories |-> 1800, protein |-> 90, carbs |-> 200, fat |-> 50,
             fiber |-> 25, micros |-> <<"B12">>]
TargetsB == [calories |-> 2400, protein |-> 120, carbs |-> 300, fat |-> 70,
             fiber |-> 35, micros |-> <<>>]

ProfileTargets == {TargetsA}
EditedTargets == {TargetsA, TargetsB}

\* catalog entries with wrong figures: calories far below and far above what
\* the macros give
WrongEntries ==
  << Food("x_under", "Wrong (low calories)",
          <<>>,
          1000, 0, 0, 300, 0, 400),
     Food("x_over", "Wrong (high calories)",
          <<>>,
          9000, 0, 0, 0, 0, 400) >>

\* the catalogs a calculator may be constructed over
Catalogs == {nutritionDb, WrongEntries}

\* ids a caller may pass to calculateNutrients
FoodIds ==
  { nutritionDb[i].id : i \in 1 .. Len(nutritionDb) }
    \cup { WrongEntries[i].id : i \in 1 .. Len(WrongEntries) }
    \cup {"fake_id"}

\* whole portions run from 1 g to MaxGrams g
MaxGrams == 40

\* portions a caller may pass, in tenths of a gram
PortionGrams ==
  {NaN, 0, 0 - 400}
    \cup { 10 * g : g \in 1 .. MaxGrams }
    \cup {5, 125, 1000, 1180, 1500, 2500}

NutrientFields == {"calories", "protein", "carbs", "fat", "fiber"}

\* the sides halfway products may fall on
Ties == [NutrientFields -> BOOLEAN]

\* the words a query is made of, the whitespace between two of them and
\* around them
QueryWords == {"a", "tea", "Roti", "chapati", "phulka"}
Separators == {" ", " \t\n"}
Paddings == {"", "\t "}
MaxTokens == 2

\* the queries of n words
RECURSIVE WordLists(_)
WordLists(n) ==
  IF n = 0 THEN {""}
  ELSE IF n = 1 THEN QueryWords
  ELSE { w \o sep \o rest :
         w \in QueryWords, sep \in Separators, rest \in WordLists(n - 1) }

Queries ==
  { pad \o body \o pad :
    pad \in Paddings, body \in UNION { WordLists(n) : n \in 0 .. MaxTokens } }


\* what the AI model may answer for one item: a name, a weight in tenths of
\* a gram (NaN: no number, 0 - 400: "-40"), numbers of its own for the
\* nutrients
AiNames == {"Roti", "tea", "Pizza"}
AiGrams == {NaN, 0, 0 - 400, 400, 1500}
AiItems ==
  { [name |-> name, grams |-> grams, calories |-> 999000, protein |-> 1100,
     carbs |-> 2200, fat |-> 3300, fiber |-> 4400, micros |-> <<"Iron: 2mg">>] :
    name \in AiNames, grams \in AiGrams }
MaxItems == 1

\* the answers of the AI model: lists of at most MaxItems items
AiAnswers == UNION { [1 .. n -> AiItems] : n \in 0 .. MaxItems }

\* the sides the halfway products of one entry fall on
EntryTies == { [f \in NutrientFields |-> b] : b \in BOOLEAN }

\* the ways a meal is entered
EntryPaths == {"captureAndDetect", "captureAndDetectPart008", "analyzeWithAI"}

\* the meals of a day of many small additions: the k-th holds 0.1 g protein
MaxMeals == 100
SmallNutrients ==
  [calories |-> 0, protein |-> 100, carbs |-> 0, fat |-> 0, fiber |-> 0,
   sourceDatabase |-> "IFCT", micros |-> <<>>]
SmallMeal(k) ==
  [id |-> "m" \o ToString(k), timestamp |-> now + k,
   totalNutrients |-> SmallNutrients]

----------------------------------------------------------------------------
(* Store and calls *)

NoProfile == [id |-> "undefined"]
NoMeal == [id |-> "undefined"]
NoLog == [date |-> "undefined"]
EmptyMap == <<>>

\* A call: where it stands (pc, step), its arguments and local variables, the
\* writes of its open transaction (wm, dm, wl) and its outcome (err, ret).
\* preMeals and preLogs record the tables as they were when the transaction
\* started.
IdleProc ==
  [pc |-> "idle", op |-> "none", step |-> 0, finished |-> FALSE,
   meal |-> NoMeal, id |-> "", targets |-> createDefaultTargets, dateStr |-> "",
   log |-> NoLog, rows |-> <<>>, profile |-> NoProfile,
   wm |-> EmptyMap, dm |-> {}, wl |-> EmptyMap,
   preMeals |-> EmptyMap, preLogs |-> EmptyMap,
   err |-> "", ret |-> NoLog]

\* history: the last deleteMeal call that ran on a stored meal, with the
\* day's cached total it found, while nothing has been committed since
NoUndo == [meal |-> NoMeal]

\* no meal is being entered, nothing is being imported, no request to the
\* AI model has been made
NoEntry == [pc |-> "idle", path |-> "", rawJson |-> <<>>, items |-> <<>>]
NoImport == [pc |-> "idle", backup |-> [kind |-> "none"], err |-> ""]
NoRequest ==
  [pc |-> "idle", apiKey |-> "", attempt |-> 0, calls |-> 0,
   last |-> [class |-> "none", msg |-> ""], err |-> "", ret |-> ""]

\* no call of searchFoods has been made
NoSearch == [pc |-> "idle", query |-> "", ret |-> <<>>]

NoCalc ==
  [pc |-> "idle", foodId |-> "", portionGrams |-> 0,
   up |-> [f \in NutrientFields |-> TRUE],
   err |-> "", result |-> NoNutrients, warned |-> FALSE]

\* the store as it is created
InitStore ==
  /\ tz \in TzOffsets
  /\ now = StartInstant(tz)
  /\ meals = EmptyMap
  /\ dailyLogs = EmptyMap
  /\ userProfile = NoProfile
  /\ procs = [p \in Procs |-> IdleProc]
  /\ undo = NoUndo

\* no call of the calculator, no search, no entry of a meal, no import and
\* no request to the AI model is in progress
IdleCalc ==
  /\ foods = NewFoodsMap(nutritionDb)
  /\ calc = NoCalc

IdleSearch == search = NoSearch

IdleEntry == entry = NoEntry

IdleImport ==
  /\ chatMessages = EmptyMap
  /\ imp = NoImport

IdleRetry ==
  /\ ai = NoRequest
  /\ apiCache = EmptyMap

Init ==
  /\ InitStore
  /\ IdleCalc
  /\ IdleSearch
  /\ IdleEntry
  /\ IdleImport
  /\ IdleRetry

\* tables listed in each db.transaction('rw', [...]) call
saveMealTables == {"meals", "dailyLogs"}
deleteMealTables == {"meals", "dailyLogs"}
updateDailyTargetsTables == {"dailyLogs"}

TxTables(op) ==
  CASE op = "saveMeal" -> saveMealTables
    [] op = "deleteMeal" -> deleteMealTables
    [] op = "updateDailyTargets" -> updateDailyTargetsTables
    [] OTHER -> {}

\* transactions that start without waiting for one another
TxCanStartAlways(p, tables) == TRUE

\* a read-write transaction starts when no open transaction shares a table
TxCanStart(p, tables) ==
  \A q \in Procs \ {p} :
     procs[q].pc = "open" => TxTables(procs[q].op) \cap tables = {}

\* what a request of the transaction of P sees: committed rows under its own writes
ViewMeals(P) ==
  [i \in ((DOMAIN meals \ P.dm) \cup DOMAIN P.wm) |->
     IF i \in DOMAIN P.wm THEN P.wm[i] ELSE meals[i]]

ViewLogs(P) ==
  [d \in (DOMAIN dailyLogs \cup DOMAIN P.wl) |->
     IF d \in DOMAIN P.wl THEN P.wl[d] ELSE dailyLogs[d]]

\* Table.get(key): the row or undefined
Get(table, key, undef) == IF key \in DOMAIN table THEN table[key] ELSE undef

Put(map, key, row) == (key :> row) @@ map

Remove(map, key) == [k \in DOMAIN map \ {key} |-> map[k]]

RECURSIVE OrderByTimestamp(_)
\* rows of an index query come back in index order
OrderByTimestamp(S) ==
  IF S = {} THEN <<>>
  ELSE LET m == CHOOSE x \in S : \A y \in S : x.timestamp <= y.timestamp
       IN <<m>> \o OrderByTimestamp(S \ {m})

\* Dexie where(index).between(lower, upper, includeLower, includeUpper)
Between(rows, lower, upper, includeLower, includeUpper) ==
  { m \in rows :
      /\ (IF includeLower THEN lower <= m.timestamp ELSE lower < m.timestamp)
      /\ (IF includeUpper THEN m.timestamp <= upper ELSE m.timestamp < upper) }

\* db.meals.where('timestamp').between(dayStart, dayEnd).toArray():
\* between() includes its lower bound and excludes its upper bound by default
MealsBetween(P, dayStart, dayEnd) ==
  OrderByTimestamp(
    Between({ ViewMeals(P)[i] : i \in DOMAIN ViewMeals(P) }, dayStart, dayEnd, TRUE, FALSE))

RECURSIVE Reduce(_, _)
\* meals.reduce((acc, meal) => sumNutrients(acc, meal.totalNutrients), acc0)
Reduce(ms, acc) ==
  IF ms = <<>> THEN acc
  ELSE Reduce(Tail(ms), sumNutrients(acc, Head(ms).totalNutrients))

\* profile?.targets || createDefaultTargets()
TargetsOrDefault(profile) ==
  IF profile = NoProfile THEN createDefaultTargets ELSE profile.targets

----------------------------------------------------------------------------
(* Transactions *)

Continue(p, P2) ==
  /\ procs' = [procs EXCEPT ![p] = P2]
  /\ UNCHANGED <<tz, now, meals, dailyLogs, userProfile>>

\* a settled promise resumes its awaiting caller before any other event is
\* handled
Settled == \A q \in Procs : procs[q].pc \notin {"done", "failed"}

\* db.transaction('rw', tables, body): the transaction starts at once when
\* no open transaction shares a table with it, and waits in line otherwise
Transaction(p, P2) ==
  /\ Settled
  /\ procs[p].pc = "idle"
  /\ IF TxCanStart(p, TxTables(P2.op))
     THEN Continue(p, [P2 EXCEPT !.pc = "open", !.step = 1,
                                 !.preMeals = meals, !.preLogs = dailyLogs])
     ELSE Continue(p, [P2 EXCEPT !.pc = "queued"])

\* a request on table t inside the transaction of P is served only when the
\* transaction lists t
InTx(P, t) == t \in TxTables(P.op)

\* a waiting transaction starts
Begin(p) ==
  /\ Settled
  /\ procs[p].pc = "queued"
  /\ TxCanStart(p, TxTables(procs[p].op))
  /\ Continue(p, [procs[p] EXCEPT !.pc = "open", !.step = 1,
                                  !.preMeals = meals, !.preLogs = dailyLogs])

Closed(P, pc, e) ==
  [P EXCEPT !.pc = pc, !.err = e, !.finished = FALSE,
            !.wm = EmptyMap, !.dm = {}, !.wl = EmptyMap,
            !.preMeals = EmptyMap, !.preLogs = EmptyMap]

\* a failing body whose writes so far are kept
AbortPartial(p, e) ==
  /\ procs' = [procs EXCEPT ![p] = Closed(procs[p], "failed", e)]
  /\ meals' = ViewMeals(procs[p])
  /\ dailyLogs' = ViewLogs(procs[p])
  /\ UNCHANGED <<tz, now, userProfile>>

\* the body of a transaction throws: its writes are discarded and the error
\* is what the caller's await receives
Abort(p, e) ==
  /\ procs' = [procs EXCEPT ![p] = Closed(procs[p], "failed", e)]
  /\ UNCHANGED <<tz, now, meals, dailyLogs, userProfile>>

\* the body has returned: all writes of the transaction become visible at once
Commit(p) ==
  /\ Settled
  /\ procs[p].pc = "open"
  /\ procs[p].finished
  /\ meals' = ViewMeals(procs[p])
  /\ dailyLogs' = ViewLogs(procs[p])
  /\ procs' = [procs EXCEPT ![p] = Closed(procs[p], "done", "")]
  /\ UNCHANGED <<tz, now, userProfile>>

\* the caller's await resumes with the result or the error
Return(p) ==
  /\ procs[p].pc \in {"done", "failed"}
  /\ procs' = [procs EXCEPT ![p] = IdleProc]
  /\ UNCHANGED <<tz, now, meals, dailyLogs, userProfile>>

Tick ==
  /\ Settled
  /\ now + TickMs <= StartInstant(tz) + MaxTicks * TickMs
  /\ now' = now + TickMs
  /\ UNCHANGED <<tz, meals, dailyLogs, userProfile, procs>>

----------------------------------------------------------------------------
(* saveMeal *)

\* a saveMeal that keys the log by the day the clock shows
saveMealKeyedToday(p, meal) ==
  /\ Transaction(p, [IdleProc EXCEPT !.op = "saveMeal", !.meal = meal,
                              !.dateStr = getLocalISOString(now)])

saveMeal(p, meal) ==
  /\ Transaction(p, [IdleProc EXCEPT !.op = "saveMeal", !.meal = meal,
                              !.dateStr = getLocalISOString(meal.timestamp)])

\* an update of the log that adds to the total and forgets the meal
WithMealUnlisted(log, meal, newTotal) ==
  [log EXCEPT !.totalNutrients = newTotal]

\* an update of the log that also resets its targets
WithMealRetargeted(log, meal, newTotal) ==
  [log EXCEPT !.meals = Append(log.meals, meal),
              !.totalNutrients = newTotal,
              !.targets = createDefaultTargets]

\* log.meals.push(meal); log.totalNutrients = newTotal
WithMeal(log, meal, newTotal) ==
  [log EXCEPT !.meals = Append(log.meals, meal),
              !.totalNutrients = newTotal]

saveMealBody(p) ==
  /\ Settled
  /\ procs[p].pc = "open"
  /\ procs[p].op = "saveMeal"
  /\ ~procs[p].finished
  /\ \E fault \in BOOLEAN :
       LET P == procs[p] IN
       IF fault THEN Abort(p, "StorageError")
       ELSE CASE P.step = 1 ->
                   \* await db.meals.add(meal)
                   IF ~InTx(P, "meals") THEN Abort(p, "NotFoundError")
                   ELSE IF P.meal.id \in DOMAIN ViewMeals(P)
                        THEN Abort(p, "ConstraintError")
                        ELSE Continue(p, [P EXCEPT !.wm = Put(P.wm, P.meal.id, P.meal),
                                                   !.step = 2])
              [] P.step = 2 ->
                   \* const log = await db.dailyLogs.get(dateStr)
                   IF ~InTx(P, "dailyLogs") THEN Abort(p, "NotFoundError")
                   ELSE Continue(p, [P EXCEPT !.log = Get(ViewLogs(P), P.dateStr, NoLog),
                                              !.step = 3])
              [] P.step = 3 /\ P.log # NoLog ->
                   \* newTotal = sumNutrients(...); log.meals.push(meal); put(log)
                   IF ~InTx(P, "dailyLogs") THEN Abort(p, "NotFoundError")
                   ELSE LET newTotal == sumNutrients(P.log.totalNutrients,
                                                     P.meal.totalNutrients)
                            log == WithMeal(P.log, P.meal, newTotal)
                        IN Continue(p, [P EXCEPT !.wl = Put(P.wl, log.date, log),
                                                 !.finished = TRUE])
              [] P.step = 3 /\ P.log = NoLog ->
                   \* const profile = await db.userProfile.get('current_user')
                   IF ~InTx(P, "userProfile") THEN Abort(p, "NotFoundError")
                   ELSE Continue(p, [P EXCEPT !.profile = userProfile, !.step = 4])
              [] P.step = 4 ->
                   \* await db.dailyLogs.put({date, meals: [meal], totalNutrients, targets})
                   IF ~InTx(P, "dailyLogs") THEN Abort(p, "NotFoundError")
                   ELSE LET targets == TargetsOrDefault(P.profile)
                        IN Continue(p, [P EXCEPT
                             !.wl = Put(P.wl, P.dateStr,
                                        [date |-> P.dateStr,
                                         meals |-> <<P.meal>>,
                                         totalNutrients |-> P.meal.totalNutrients,
                                         targets |-> targets]),
                             !.finished = TRUE])

----------------------------------------------------------------------------
(* deleteMeal and recalculateDailyLog *)

\* a deleteMeal that rejects an id it does not find
ReturnEarlyThrows(p, P) == Abort(p, "NotFoundError")

\* if (!meal) return: the body ends without a write
ReturnEarly(p, P) == Continue(p, [P EXCEPT !.finished = TRUE])

deleteMeal(p, id) ==
  /\ id \in MealIds
  /\ Transaction(p, [IdleProc EXCEPT !.op = "deleteMeal", !.id = id])

deleteMealBody(p) ==
  /\ Settled
  /\ procs[p].pc = "open"
  /\ procs[p].op = "deleteMeal"
  /\ ~procs[p].finished
  /\ \E fault \in BOOLEAN :
       LET P == procs[p]
           date == P.meal.timestamp
           dayStart == SetHours(date, 0, 0, 0, 0)
           dayEnd == SetHours(date, 23, 59, 59, 999)
       IN
       IF fault THEN Abort(p, "StorageError")
       ELSE CASE P.step = 1 ->
                   \* const meal = await db.meals.get(id); if (!meal) return
                   IF ~InTx(P, "meals") THEN Abort(p, "NotFoundError")
                   ELSE IF Get(ViewMeals(P), P.id, NoMeal) = NoMeal
                        THEN ReturnEarly(p, P)
                        ELSE Continue(p, [P EXCEPT !.meal = ViewMeals(P)[P.id],
                                                   !.step = 2])
              [] P.step = 2 ->
                   \* await db.meals.delete(id)
                   IF ~InTx(P, "meals") THEN Abort(p, "NotFoundError")
                   ELSE Continue(p, [P EXCEPT !.wm = Remove(P.wm, P.id),
                                              !.dm = P.dm \cup {P.id},
                                              !.step = 3])
              [] P.step = 3 ->
                   \* recalculateDailyLog(meal.timestamp): the meals of the day
                   IF ~InTx(P, "meals") THEN Abort(p, "NotFoundError")
                   ELSE Continue(p, [P EXCEPT !.dateStr = getLocalISOString(date),
                                              !.rows = MealsBetween(P, dayStart, dayEnd),
                                              !.step = 4])
              [] P.step = 4 ->
                   \* const existingLog = await db.dailyLogs.get(dateStr)
                   IF ~InTx(P, "dailyLogs") THEN Abort(p, "NotFoundError")
                   ELSE Continue(p, [P EXCEPT !.log = Get(ViewLogs(P), P.dateStr, NoLog),
                                              !.step = 5])
              [] P.step = 5 ->
                   \* const profile = await getUserProfile()
                   IF ~InTx(P, "userProfile") THEN Abort(p, "NotFoundError")
                   ELSE Continue(p, [P EXCEPT !.profile = userProfile, !.step = 6])
              [] P.step = 6 ->
                   \* await db.dailyLogs.put({date, meals, totalNutrients, targets})
                   IF ~InTx(P, "dailyLogs") THEN Abort(p, "NotFoundError")
                   ELSE LET targets == IF P.log # NoLog THEN P.log.targets
                                       ELSE TargetsOrDefault(P.profile)
                            totalNutrients == Reduce(P.rows, createZeroNutrients)
                        IN Continue(p, [P EXCEPT
                             !.wl = Put(P.wl, P.dateStr,
                                        [date |-> P.dateStr,
                                         meals |-> P.rows,
                                         totalNutrients |-> totalNutrients,
                                         targets |-> targets]),
                             !.finished = TRUE])

----------------------------------------------------------------------------
(* updateDailyTargets *)

updateDailyTargets(p, targets) ==
  /\ targets \in EditedTargets
  /\ Transaction(p, [IdleProc EXCEPT !.op = "updateDailyTargets", !.targets = targets,
                              !.dateStr = getLocalISOString(now)])

\* an update that writes a fresh row in place of the stored one
UpdateTargetsReset(logs, key, targets) ==
  Put(logs, key, [date |-> key, meals |-> <<>>,
                  totalNutrients |-> createZeroNutrients, targets |-> targets])

\* db.dailyLogs.update(key, {targets}): the stored row with targets replaced
UpdateTargets(logs, key, targets) ==
  IF key \in DOMAIN logs THEN Put(logs, key, [logs[key] EXCEPT !.targets = targets])
  ELSE logs

updateDailyTargetsBody(p) ==
  /\ Settled
  /\ procs[p].pc = "open"
  /\ procs[p].op = "updateDailyTargets"
  /\ ~procs[p].finished
  /\ \E fault \in BOOLEAN :
       LET P == procs[p] IN
       IF fault THEN Abort(p, "StorageError")
       ELSE CASE P.step = 1 ->
                   \* const log = await db.dailyLogs.get(dateStr)
                   IF ~InTx(P, "dailyLogs") THEN Abort(p, "NotFoundError")
                   ELSE Continue(p, [P EXCEPT !.log = Get(ViewLogs(P), P.dateStr, NoLog),
                                              !.step = 2])
              [] P.step = 2 ->
                   IF ~InTx(P, "dailyLogs") THEN Abort(p, "NotFoundError")
                   ELSE IF P.log # NoLog
                        THEN \* await db.dailyLogs.update(dateStr, { targets })
                             Continue(p, [P EXCEPT
                               !.wl = Put(P.wl, P.dateStr,
                                          UpdateTargets(ViewLogs(P), P.dateStr,
                                                        P.targets)[P.dateStr]),
                               !.finished = TRUE])
                        ELSE \* await db.dailyLogs.put({date, meals: [], ...})
                             Continue(p, [P EXCEPT
                               !.wl = Put(P.wl, P.dateStr,
                                          [date |-> P.dateStr,
                                           meals |-> <<>>,
                                           totalNutrients |-> createZeroNutrients,
                                           targets |-> P.targets]),
                               !.finished = TRUE])

----------------------------------------------------------------------------
(* getTodayLog, saveUserProfile *)

getTodayLog(p) ==
  /\ Settled
  /\ procs[p].pc = "idle"
  /\ Continue(p, [IdleProc EXCEPT !.pc = "read", !.op = "getTodayLog", !.step = 1,
                                  !.dateStr = getLocalISOString(now)])

\* a synthesized log that ignores the stored profile
SynthesizedLogNoProfile(dateStr, profile) ==
  [date |-> dateStr,
   meals |-> <<>>,
   totalNutrients |-> createZeroNutrients,
   targets |-> createDefaultTargets]

\* the result of getTodayLog when no log is stored
SynthesizedLog(dateStr, profile) ==
  [date |-> dateStr,
   meals |-> <<>>,
   totalNutrients |-> createZeroNutrients,
   targets |-> TargetsOrDefault(profile)]

\* a getTodayLog that stores the log it returns
ResolvePersist(p, P, value) ==
  /\ procs' = [procs EXCEPT ![p] = [IdleProc EXCEPT !.pc = "done", !.op = P.op,
                                                     !.dateStr = P.dateStr,
                                                     !.ret = value]]
  /\ dailyLogs' = Put(dailyLogs, value.date, value)
  /\ UNCHANGED <<tz, now, meals, userProfile>>

\* getTodayLog returns value
Resolve(p, P, value) ==
  /\ procs' = [procs EXCEPT ![p] = [IdleProc EXCEPT !.pc = "done", !.op = P.op,
                                                     !.dateStr = P.dateStr,
                                                     !.ret = value]]
  /\ UNCHANGED <<tz, now, meals, dailyLogs, userProfile>>

getTodayLogBody(p) ==
  /\ Settled
  /\ procs[p].pc = "read"
  /\ procs[p].op = "getTodayLog"
  /\ \E fault \in BOOLEAN :
       LET P == procs[p] IN
       IF fault THEN Abort(p, "StorageError")
       ELSE CASE P.step = 1 ->
                   \* const log = await db.dailyLogs.get(dateStr); if (log) return log
                   IF Get(dailyLogs, P.dateStr, NoLog) # NoLog
                   THEN Resolve(p, P, dailyLogs[P.dateStr])
                   ELSE Continue(p, [P EXCEPT !.step = 2])
              [] P.step = 2 ->
                   \* const profile = await getUserProfile(); return {...}
                   Resolve(p, P, SynthesizedLog(P.dateStr, userProfile))

saveUserProfile(targets) ==
  /\ Settled
  /\ userProfile' = [id |-> "current_user", targets |-> targets]
  /\ UNCHANGED <<tz, now, meals, dailyLogs, procs>>

----------------------------------------------------------------------------

\* the calls and steps of the program; undo is a history variable that the
\* program does not have
Next ==
  \/ \E p \in Procs, m \in MealPool : saveMeal(p, m) /\ UNCHANGED <<undo, otherVars>>
  \/ \E p \in Procs : saveMealBody(p) /\ UNCHANGED <<undo, otherVars>>
  \/ \E p \in Procs, id \in MealIds : deleteMeal(p, id) /\ UNCHANGED <<undo, otherVars>>
  \/ \E p \in Procs : deleteMealBody(p) /\ UNCHANGED <<undo, otherVars>>
  \/ \E p \in Procs, t \in EditedTargets : updateDailyTargets(p, t) /\ UNCHANGED <<undo, otherVars>>
  \/ \E p \in Procs : updateDailyTargetsBody(p) /\ UNCHANGED <<undo, otherVars>>
  \/ \E p \in Procs : getTodayLog(p) /\ UNCHANGED <<undo, otherVars>>
  \/ \E p \in Procs : getTodayLogBody(p) /\ UNCHANGED <<undo, otherVars>>
  \/ \E t \in ProfileTargets : saveUserProfile(t) /\ UNCHANGED <<undo, otherVars>>
  \/ \E p \in Procs : Begin(p) /\ UNCHANGED <<undo, otherVars>>
  \/ \E p \in Procs : Commit(p) /\ UNCHANGED <<undo, otherVars>>
  \/ \E p \in Procs : Return(p) /\ UNCHANGED <<undo, otherVars>>
  \/ Tick /\ UNCHANGED <<undo, otherVars>>

Spec == Init /\ [][Next]_vars

\* the value of undo after a step
UndoAfter ==
  LET ended == { p \in Procs : procs[p].pc = "open" /\ procs'[p].pc \in {"done", "failed"} }
      returned == { p \in Procs : procs[p].pc \in {"done", "failed"} /\ procs'[p].pc = "idle" }
  IN IF ended # {}
     THEN LET p == CHOOSE q \in ended : TRUE
              P == procs[p]
          IN IF /\ P.op = "deleteMeal" /\ P.meal # NoMeal /\ P.log # NoLog
                /\ procs'[p].err # "StorageError"
             THEN [meal |-> P.meal, total |-> P.log.totalNutrients]
             ELSE IF procs'[p].pc = "failed" THEN undo
             ELSE IF P.op = "saveMeal" /\ P.meal = undo.meal THEN undo
             ELSE IF meals' = meals /\ dailyLogs' = dailyLogs THEN undo
             ELSE NoUndo
     ELSE IF returned # {}
     THEN LET p == CHOOSE q \in returned : TRUE
          IN IF procs[p].op = "saveMeal" /\ procs[p].meal = undo.meal
             THEN NoUndo ELSE undo
     ELSE undo

\* the same program, with the history of deleteMeal calls recorded
NextHist ==
  \/ \E p \in Procs, m \in MealPool : saveMeal(p, m) /\ undo' = UndoAfter /\ UNCHANGED otherVars
  \/ \E p \in Procs : saveMealBody(p) /\ undo' = UndoAfter /\ UNCHANGED otherVars
  \/ \E p \in Procs, id \in MealIds : deleteMeal(p, id) /\ undo' = UndoAfter /\ UNCHANGED otherVars
  \/ \E p \in Procs : deleteMealBody(p) /\ undo' = UndoAfter /\ UNCHANGED otherVars
  \/ \E p \in Procs, t \in EditedTargets : updateDailyTargets(p, t) /\ undo' = UndoAfter /\ UNCHANGED otherVars
  \/ \E p \in Procs : updateDailyTargetsBody(p) /\ undo' = UndoAfter /\ UNCHANGED otherVars
  \/ \E p \in Procs : getTodayLog(p) /\ undo' = UndoAfter /\ UNCHANGED otherVars
  \/ \E p \in Procs : getTodayLogBody(p) /\ undo' = UndoAfter /\ UNCHANGED otherVars
  \/ \E t \in ProfileTargets : saveUserProfile(t) /\ undo' = UndoAfter /\ UNCHANGED otherVars
  \/ \E p \in Procs : Begin(p) /\ undo' = UndoAfter /\ UNCHANGED otherVars
  \/ \E p \in Procs : Commit(p) /\ undo' = UndoAfter /\ UNCHANGED otherVars
  \/ \E p \in Procs : Return(p) /\ undo' = UndoAfter /\ UNCHANGED otherVars
  \/ Tick /\ undo' = UndoAfter /\ UNCHANGED otherVars

SpecHist == Init /\ [][NextHist]_vars

----------------------------------------------------------------------------
(* Calls of the calculator *)

\* a calculator over one of the catalogs, and a call of calculateNutrients
\* with its arguments
InitCalc ==
  /\ InitStore
  /\ foods \in { NewFoodsMap(list) : list \in Catalogs }
  /\ \E foodId \in FoodIds, portionGrams \in PortionGrams, up \in Ties :
       calc = [NoCalc EXCEPT !.pc = "called", !.foodId = foodId,
                             !.portionGrams = portionGrams, !.up = up]
  /\ IdleSearch
  /\ IdleEntry
  /\ IdleImport
  /\ IdleRetry

\* the call runs: it returns a Nutrients or throws
CalculateNutrients ==
  /\ calc.pc = "called"
  /\ LET out == calculateNutrients(foods, calc.foodId, calc.portionGrams, calc.up)
     IN calc' = [calc EXCEPT !.pc = out.pc, !.err = out.err,
                             !.result = out.result, !.warned = out.warned]
  /\ UNCHANGED <<storeVars, foods, search, entry, importVars, aiVars>>

NextCalc == CalculateNutrients

SpecCalc == InitCalc /\ [][NextCalc]_vars

----------------------------------------------------------------------------
(* Searches of the catalog *)

\* a search is called with a query
InitSearch ==
  /\ InitStore
  /\ IdleCalc
  /\ IdleEntry
  /\ IdleImport
  /\ IdleRetry
  /\ \E query \in Queries :
       search = [NoSearch EXCEPT !.pc = "called", !.query = query]

\* the call runs and returns its list
SearchFoods ==
  /\ search.pc = "called"
  /\ search' = [search EXCEPT !.pc = "returned",
                              !.ret = searchFoods(search.query)]
  /\ UNCHANGED <<storeVars, foods, calc, entry, importVars, aiVars>>

NextSearch == SearchFoods

SpecSearch == InitSearch /\ [][NextSearch]_vars

----------------------------------------------------------------------------
(* Entry of a meal from an answer of the AI model *)

\* the AI model has answered on one of the entry paths
InitEntry ==
  /\ InitStore
  /\ IdleCalc
  /\ IdleSearch
  /\ IdleImport
  /\ IdleRetry
  /\ \E path \in EntryPaths, rawJson \in AiAnswers :
       entry = [NoEntry EXCEPT !.pc = "called", !.path = path,
                               !.rawJson = rawJson]

\* the end of an entry: onResult / onAdd with the items, or an error shown
EntryEnds(detected) ==
  IF detected.threw \/ Len(detected.items) = 0
  THEN entry' = [entry EXCEPT !.pc = "failed"]
  ELSE entry' = [entry EXCEPT !.pc = "resulted", !.items = detected.items]

\* CameraScanner.captureAndDetect (src/components/CameraScanner.tsx)
captureAndDetect ==
  /\ entry.pc = "called"
  /\ entry.path = "captureAndDetect"
  /\ \E up \in EntryTies :
       EntryEnds(Detected([i \in 1 .. Len(entry.rawJson) |->
                             detectItem(entry.rawJson[i], up)]))
  /\ UNCHANGED <<storeVars, foods, calc, search, importVars, aiVars>>

\* CameraScanner.captureAndDetect (src/unnamed/part_008)
captureAndDetectPart008 ==
  /\ entry.pc = "called"
  /\ entry.path = "captureAndDetectPart008"
  /\ \E up \in EntryTies :
       EntryEnds(Detected([i \in 1 .. Len(entry.rawJson) |->
                             detectItemPart008(entry.rawJson[i], up)]))
  /\ UNCHANGED <<storeVars, foods, calc, search, importVars, aiVars>>

\* ManualEntryModal.analyzeWithAI
analyzeWithAI ==
  /\ entry.pc = "called"
  /\ entry.path = "analyzeWithAI"
  /\ EntryEnds(Detected([i \in 1 .. Len(entry.rawJson) |->
                          analyzedItem(entry.rawJson[i])]))
  /\ UNCHANGED <<storeVars, foods, calc, search, importVars, aiVars>>

NextEntry ==
  \/ captureAndDetect
  \/ captureAndDetectPart008
  \/ analyzeWithAI

SpecEntry == InitEntry /\ [][NextEntry]_vars

----------------------------------------------------------------------------
(* A day of many small meals *)

\* the callers add the small meals one after the other, the next one once
\* the one before is stored, and may set the targets of the day
NextSmallMeals ==
  \/ \E p \in Procs :
       /\ Cardinality(DOMAIN meals) < MaxMeals
       /\ saveMeal(p, SmallMeal(Cardinality(DOMAIN meals) + 1))
       /\ UNCHANGED <<undo, otherVars>>
  \/ \E p \in Procs : saveMealBody(p) /\ UNCHANGED <<undo, otherVars>>
  \/ \E p \in Procs : updateDailyTargets(p, TargetsA) /\ UNCHANGED <<undo, otherVars>>
  \/ \E p \in Procs : updateDailyTargetsBody(p) /\ UNCHANGED <<undo, otherVars>>
  \/ \E p \in Procs : Begin(p) /\ UNCHANGED <<undo, otherVars>>
  \/ \E p \in Procs : Commit(p) /\ UNCHANGED <<undo, otherVars>>
  \/ \E p \in Procs : Return(p) /\ UNCHANGED <<undo, otherVars>>

SpecSmallMeals == Init /\ [][NextSmallMeals]_vars

----------------------------------------------------------------------------
(* importUserData *)

\* API keys: the one of this device and the one a backup may carry
KeyOfDevice == "key-of-device"
KeyOfBackup == "key-of-backup"

\* the profile row stored before an import: none, one without a key, one
\* whose key was removed, one with a key
StoredProfiles ==
  { NoProfile,
    [id |-> "current_user", targets |-> TargetsA],
    [id |-> "current_user", targets |-> TargetsA, apiKey |-> ""],
    [id |-> "current_user", targets |-> TargetsA, apiKey |-> KeyOfDevice] }

ChatRow(id, text) == [id |-> id, role |-> "user", text |-> text, timestamp |-> id]

LogOf(meal, date) ==
  [date |-> date, meals |-> <<meal>>, totalNutrients |-> meal.totalNutrients,
   targets |-> TargetsA]

\* what JSON.parse makes of the text of a backup: a syntax error, an object
\* without data, or data with its four lists
BackupProfileLists ==
  { <<>>,
    <<[id |-> "current_user", targets |-> TargetsB]>>,
    <<[id |-> "current_user", targets |-> TargetsB, apiKey |-> KeyOfBackup]>> }
BackupMealLists(z) ==
  LET c == [id |-> "c", timestamp |-> LocalInstant(3, 15 * 60000, z),
            totalNutrients |-> NutB]
  IN { <<>>, <<c>>, <<c, c>> }
BackupLogLists(z) ==
  LET c == [id |-> "c", timestamp |-> LocalInstant(3, 15 * 60000, z),
            totalNutrients |-> NutB]
  IN { <<>>, <<LogOf(c, "2024-03-01")>> }
BackupChatLists == { <<>>, <<ChatRow(1, "hello"), ChatRow(2, "again")>> }
Backups(z) ==
  { [kind |-> "syntax error"], [kind |-> "no data"] }
    \cup { [kind |-> "data", profile |-> pl, logs |-> ll, meals |-> ml, chat |-> cl] :
           pl \in BackupProfileLists, ll \in BackupLogLists(z),
           ml \in BackupMealLists(z), cl \in BackupChatLists }

\* const { apiKey, ...rest } = p; return rest
WithoutApiKey(p) == [f \in DOMAIN p \ {"apiKey"} |-> p[f]]

\* importedProfile.apiKey = existingKey
WithApiKey(p, key) ==
  [f \in DOMAIN p \cup {"apiKey"} |-> IF f = "apiKey" THEN key ELSE p[f]]

\* existingProfile?.apiKey, the empty string standing for undefined as well
ExistingKey(existingProfile) ==
  IF existingProfile # NoProfile /\ "apiKey" \in DOMAIN existingProfile
  THEN existingProfile.apiKey
  ELSE ""

\* table.bulkAdd(rows) on a table just cleared: a row whose key is taken
\* makes the call fail
BulkAddFails(rows, key) ==
  \E i, j \in 1 .. Len(rows) : i # j /\ rows[i][key] = rows[j][key]

\* the table after bulkAdd: the rows under their primary keys
BulkAdd(rows, key) ==
  [k \in { rows[i][key] : i \in 1 .. Len(rows) } |->
     rows[CHOOSE i \in 1 .. Len(rows) : rows[i][key] = k]]

\* the import has thrown: nothing was written, or all of it was rolled back
ImportFails(e) ==
  /\ imp' = [imp EXCEPT !.pc = "failed", !.err = e]
  /\ UNCHANGED <<userProfile, dailyLogs, meals, chatMessages>>

\* the backup was parsed; a profile list is given
InitImport ==
  /\ tz \in TzOffsets
  /\ now = StartInstant(tz)
  /\ procs = [p \in Procs |-> IdleProc]
  /\ undo = NoUndo
  /\ userProfile \in StoredProfiles
  /\ \E filled \in BOOLEAN :
       LET a == [id |-> "a", timestamp |-> LocalInstant(2, 15 * 60000, tz),
                 totalNutrients |-> NutA]
       IN IF filled
          THEN /\ meals = Put(EmptyMap, "a", a)
               /\ dailyLogs = Put(EmptyMap, "2024-02-29", LogOf(a, "2024-02-29"))
               /\ chatMessages = Put(EmptyMap, 1, ChatRow(1, "before"))
          ELSE /\ meals = EmptyMap
               /\ dailyLogs = EmptyMap
               /\ chatMessages = EmptyMap
  /\ \E backup \in Backups(tz) :
       imp = [NoImport EXCEPT !.pc = "called", !.backup = backup]
  /\ IdleCalc
  /\ IdleSearch
  /\ IdleEntry
  /\ IdleRetry

\* importUserData(jsonString): the whole call; its transaction lists all four
\* tables, so no other transaction runs between its steps
importUserData ==
  /\ imp.pc = "called"
  /\ LET backup == imp.backup IN
     \E fault \in BOOLEAN :
       IF backup.kind = "syntax error" THEN ImportFails("SyntaxError")
       ELSE IF backup.kind = "no data" THEN ImportFails("Invalid backup format")
       ELSE IF fault THEN ImportFails("StorageError")
       ELSE LET profile == [i \in 1 .. Len(backup.profile) |->
                              WithoutApiKey(backup.profile[i])]
                existingKey == ExistingKey(userProfile)
                importedProfile ==
                  IF existingKey # "" THEN WithApiKey(profile[1], existingKey)
                  ELSE profile[1]
            IN IF \/ BulkAddFails(backup.logs, "date")
                  \/ BulkAddFails(backup.meals, "id")
                  \/ BulkAddFails(backup.chat, "id")
               THEN ImportFails("ConstraintError")
               ELSE /\ userProfile' = IF Len(profile) > 0 THEN importedProfile
                                      ELSE NoProfile
                    /\ dailyLogs' = BulkAdd(backup.logs, "date")
                    /\ meals' = BulkAdd(backup.meals, "id")
                    /\ chatMessages' = BulkAdd(backup.chat, "id")
                    /\ imp' = [imp EXCEPT !.pc = "done"]
  /\ UNCHANGED <<tz, now, procs, undo, foods, calc, search, entry, aiVars>>

NextImport == importUserData

SpecImport == InitImport /\ [][NextImport]_vars

----------------------------------------------------------------------------
(* analyzeImageWithRetry *)

maxRetries == 3
MsPerCacheDay == 1000 * 60 * 60 * 24

\* the key of the request in apiCache (generateRequestHash)
hashKey == "hash-of-request"

\* the keys a caller may pass
ApiKeys == {"", "  short ", " AIzaSy-0123456789 "}

\* what apiCache may hold for the request: nothing, an answer of an hour
\* ago, an answer of 25 hours ago
CachedRows(t) ==
  { EmptyMap,
    Put(EmptyMap, hashKey, [hash |-> hashKey, response |-> "[cached]",
                            timestamp |-> t - 3600000]),
    Put(EmptyMap, hashKey, [hash |-> hashKey, response |-> "[old]",
                            timestamp |-> t - 25 * 3600000]) }

\* the errors one attempt may end with: what went wrong, and the message
Failure(class, msg) == [class |-> class, msg |-> msg]
Failures ==
  { Failure("rate-limit", "429 Too Many Requests"),
    Failure("rate-limit", "Quota exceeded for this project"),
    Failure("server-overload", "503 Service Unavailable"),
    Failure("server-overload", "500 Internal Server Error"),
    Failure("server-overload", "The model is overloaded"),
    Failure("network", "fetch failed"),
    Failure("network", "network connection lost"),
    Failure("timeout", "Request timed out"),
    Failure("api-key", "API Key not valid (503)"),
    Failure("forbidden", "403 Forbidden. Quota project is not set."),
    Failure("safety", "Response blocked: SAFETY (overloaded filter)"),
    Failure("safety", "AI blocked this image for safety reasons (SAFETY)."),
    Failure("unclassified", "AI blocked this image for safety reasons (BLOCKLIST)."),
    Failure("unclassified", "Empty response from AI (No text generated)."),
    Failure("unclassified", "400 Bad Request") }

\* createGenAIClient: the error it throws, "" when it returns a client
createGenAIClient(apiKey) ==
  LET cleanKey == trim(apiKey) IN
  IF cleanKey = ""
  THEN "API Key is missing. Please configure it in your Profile settings."
  ELSE IF Len(cleanKey) < 10
  THEN "API Key appears to be invalid. Please check your Profile settings."
  ELSE ""

isRateLimit(msg) == includes(msg, "429") \/ includes(msg, "Quota")
isServerOverload(msg) ==
  includes(msg, "503") \/ includes(msg, "500") \/ includes(msg, "overloaded")
isNetworkError(msg) ==
  includes(msg, "fetch failed") \/ includes(msg, "network")
    \/ includes(msg, "timed out")

\* a check that takes no error for final
NonRetryableNever(msg) == FALSE

\* msg.includes("API Key") || msg.includes("403") || msg.includes("SAFETY")
NonRetryable(msg) ==
  includes(msg, "API Key") \/ includes(msg, "403") \/ includes(msg, "SAFETY")

isRetryable(msg) == isRateLimit(msg) \/ isServerOverload(msg) \/ isNetworkError(msg)

\* the function is called
InitRetry ==
  /\ InitStore
  /\ IdleCalc
  /\ IdleSearch
  /\ IdleEntry
  /\ IdleImport
  /\ apiCache \in CachedRows(now)
  /\ \E apiKey \in ApiKeys :
       ai = [NoRequest EXCEPT !.pc = "called", !.apiKey = apiKey]

\* the cache is read; a fresh answer is returned, otherwise the client is
\* made and the loop entered
CheckCache ==
  /\ ai.pc = "called"
  /\ LET cached == Get(apiCache, hashKey, NoLog) IN
     IF cached # NoLog /\ now - cached.timestamp < MsPerCacheDay
     THEN ai' = [ai EXCEPT !.pc = "returned", !.ret = cached.response]
     ELSE IF createGenAIClient(ai.apiKey) # ""
          THEN ai' = [ai EXCEPT !.pc = "thrown",
                                !.err = createGenAIClient(ai.apiKey)]
          ELSE ai' = [ai EXCEPT !.pc = "attempting", !.attempt = 0]
  /\ UNCHANGED apiCache
  /\ UNCHANGED <<storeVars, foods, calc, search, entry, importVars>>

\* one pass of the loop: the request answers with a text
AttemptSucceeds ==
  /\ ai.pc = "attempting"
  /\ ai.attempt <= maxRetries
  /\ apiCache' = Put(apiCache, hashKey,
                     [hash |-> hashKey, response |-> "[answer]",
                      timestamp |-> now])
  /\ ai' = [ai EXCEPT !.pc = "returned", !.ret = "[answer]",
                      !.calls = ai.calls + 1,
                      !.last = Failure("none", "")]
  /\ UNCHANGED <<storeVars, foods, calc, search, entry, importVars>>

\* one pass of the loop: the request fails, times out, is blocked or answers
\* without a text, and the catch block rethrows or goes on to wait
AttemptFails ==
  /\ ai.pc = "attempting"
  /\ ai.attempt <= maxRetries
  /\ \E error \in Failures :
       LET msg == error.msg IN
       IF NonRetryable(msg)
       THEN ai' = [ai EXCEPT !.pc = "thrown", !.err = msg, !.last = error,
                             !.calls = ai.calls + 1]
       ELSE IF ai.attempt = maxRetries \/ ~isRetryable(msg)
       THEN ai' = [ai EXCEPT !.pc = "thrown", !.err = msg, !.last = error,
                             !.calls = ai.calls + 1]
       ELSE ai' = [ai EXCEPT !.pc = "waiting", !.last = error,
                             !.calls = ai.calls + 1]
  /\ UNCHANGED apiCache
  /\ UNCHANGED <<storeVars, foods, calc, search, entry, importVars>>

\* await wait(delay); attempt++
Backoff ==
  /\ ai.pc = "waiting"
  /\ ai' = [ai EXCEPT !.pc = "attempting", !.attempt = ai.attempt + 1]
  /\ UNCHANGED apiCache
  /\ UNCHANGED <<storeVars, foods, calc, search, entry, importVars>>

NextRetry ==
  \/ CheckCache
  \/ AttemptSucceeds
  \/ AttemptFails
  \/ Backoff

\* every await of the function settles: the cache request, the request to
\* the model raced against its 30 s timer, the timer of the backoff
SpecRetry == InitRetry /\ [][NextRetry]_vars /\ WF_vars(NextRetry)

----------------------------------------------------------------------------
(* Properties *)

\* the key of the calendar day that lies `day` days after 2024-02-27
DayKey(day) ==
  CASE day = 1 -> "2024-02-28"
    [] day = 2 -> "2024-02-29"
    [] day = 3 -> "2024-03-01"
    [] day = 4 -> "2024-03-02"
    [] day = 5 -> "2024-03-03"

\* the local calendar day a meal of the pool was stamped with
LocalDayOf(m) == (CHOOSE s \in MealSpecs : s.id = m.id).day

\* the local calendar day shown by the clock: it starts at 08:00 of day 2
\* and moves in steps of TickMs
Today == 2 + (8 * 3600000 + (now - StartInstant(tz))) \div MsPerDay

\* the total recalculateDailyLog(date) computes from the stored meals
RecomputedTotal(date) ==
  Reduce(MealsBetween(IdleProc, SetHours(date, 0, 0, 0, 0),
                      SetHours(date, 23, 59, 59, 999)),
         createZeroNutrients)

StoredMealsOfDay(day) ==
  { meals[i] : i \in { j \in DOMAIN meals : LocalDayOf(meals[j]) = day } }

SeqIds(ms) == { ms[i].id : i \in 1 .. Len(ms) }

\* C1: when saveMeal adds a meal to a day that has no log, the day afterwards
\* has a log whose cached totalNutrients equals the total the from-scratch
\* recompute gives over the stored meals of that day.
C1_IncrementalEqualsRecompute ==
  \A p \in Procs :
    ( /\ procs[p].op = "saveMeal"
      /\ procs[p].pc \in {"done", "failed"}
      /\ procs[p].step >= 3
      /\ procs[p].log = NoLog
      /\ procs[p].err # "StorageError" )
    => /\ procs[p].dateStr \in DOMAIN dailyLogs
       /\ dailyLogs[procs[p].dateStr].totalNutrients
            = RecomputedTotal(procs[p].meal.timestamp)

\* C2: when a stored meal has been deleted with deleteMeal and an identical
\* meal is then added again with saveMeal, the add is accepted and the day's
\* totalNutrients is what it was before the deletion.
C2_DeleteThenReAdd ==
  \A p \in Procs :
    ( /\ procs[p].op = "saveMeal"
      /\ procs[p].pc \in {"done", "failed"}
      /\ procs[p].err # "StorageError"
      /\ undo # NoUndo
      /\ procs[p].meal = undo.meal )
    => /\ procs[p].pc = "done"
       /\ procs[p].dateStr \in DOMAIN dailyLogs
       /\ dailyLogs[procs[p].dateStr].totalNutrients = undo.total

\* C5: no request of saveMeal, deleteMeal or updateDailyTargets is rejected
\* for being on a table that its transaction does not list.
C5_TablesDeclared ==
  \A p \in Procs :
    ~ ( /\ procs[p].pc = "failed"
        /\ procs[p].op \in {"saveMeal", "deleteMeal", "updateDailyTargets"}
        /\ procs[p].err = "NotFoundError" )

\* C6: the total deleteMeal computes for the day of the deleted meal is the
\* sum, started from zero, over all remaining stored meals of that local
\* calendar day, 00:00:00.000 through 23:59:59.999.
C6_RecomputeCoversLocalDay ==
  \A p \in Procs :
    ( /\ procs[p].op = "deleteMeal"
      /\ procs[p].pc \in {"open", "done", "failed"}
      /\ procs[p].step >= 4 )
    => Reduce(procs[p].rows, createZeroNutrients)
         = Reduce(OrderByTimestamp(StoredMealsOfDay(LocalDayOf(procs[p].meal))
                                     \ {procs[p].meal}),
                  createZeroNutrients)

MutatingOps == {"saveMeal", "deleteMeal", "updateDailyTargets"}

\* C3: when saveMeal, deleteMeal or updateDailyTargets fails at any step,
\* the caller receives an error and the meals table and all daily logs are
\* as they were when the call's transaction started; while a transaction is
\* open none of its writes is visible.
C3_FailedCallLeavesTables ==
  /\ [](\A p \in Procs :
          procs[p].pc = "open"
            => meals = procs[p].preMeals /\ dailyLogs = procs[p].preLogs)
  /\ [][\A p \in Procs :
          (procs[p].pc = "open" /\ procs'[p].pc = "failed")
            => /\ procs[p].op \in MutatingOps
               /\ procs'[p].err \in {"StorageError", "ConstraintError", "NotFoundError"}
               /\ meals' = procs[p].preMeals
               /\ dailyLogs' = procs[p].preLogs]_vars

\* a saveMeal that failed while writing the log, after it had added the meal
C3_FailedAfterWrite ==
  \E p \in Procs :
    /\ procs[p].op = "saveMeal"
    /\ procs[p].pc = "failed"
    /\ procs[p].step = 3
    /\ procs[p].log # NoLog
    /\ procs[p].err = "StorageError"
    /\ procs[p].meal.id \notin DOMAIN meals

\* C4: whatever calls overlap, every daily log lists exactly the stored meals
\* of its day, each once, its cached total counts each listed meal exactly
\* once, and every stored meal is in the log of its day (no lost update).
C4_NoLostUpdate ==
  /\ \A d \in DOMAIN dailyLogs :
       LET L == dailyLogs[d] IN
         /\ SeqIds(L.meals)
              = { i \in DOMAIN meals : getLocalISOString(meals[i].timestamp) = d }
         /\ Cardinality(SeqIds(L.meals)) = Len(L.meals)
         /\ L.totalNutrients = Reduce(L.meals, createZeroNutrients)
  /\ \A i \in DOMAIN meals :
       getLocalISOString(meals[i].timestamp) \in DOMAIN dailyLogs

\* a saveMeal waits for its transaction while a saveMeal for the same date
\* stands between its read and its write of the day's log
C4_TwoSavesOverlap ==
  \E p, q \in Procs :
    /\ p # q
    /\ procs[p].op = "saveMeal" /\ procs[p].pc = "open" /\ procs[p].step = 3
    /\ procs[p].log # NoLog
    /\ procs[q].op = "saveMeal" /\ procs[q].pc = "queued"
    /\ procs[q].dateStr = procs[p].dateStr
    /\ procs[q].meal.id \notin DOMAIN meals \cup {procs[p].meal.id}

C8_GetTodayLogResult ==
  [][\A p \in Procs :
       LET k == procs[p].dateStr IN
       /\ (procs[p].pc = "idle" /\ procs'[p].op = "getTodayLog")
            => procs'[p].dateStr = DayKey(Today)
       /\ (procs[p].pc = "read" /\ procs[p].step = 1 /\ procs'[p] # procs[p]
             /\ procs'[p].pc # "failed")
            => IF k \in DOMAIN dailyLogs
               THEN procs'[p].pc = "done" /\ procs'[p].ret = dailyLogs[k]
               ELSE procs'[p].pc = "read"
       /\ (procs[p].pc = "read" /\ procs[p].step = 2 /\ procs'[p] # procs[p]
             /\ procs'[p].pc # "failed")
            => /\ procs'[p].pc = "done"
               /\ procs'[p].ret =
                    [date |-> k,
                     meals |-> <<>>,
                     totalNutrients |->
                       [calories |-> 0, protein |-> 0, carbs |-> 0, fat |-> 0,
                        fiber |-> 0, sourceDatabase |-> "Custom", micros |-> <<>>],
                     targets |->
                       IF userProfile = NoProfile
                       THEN [calories |-> 2000, protein |-> 80, carbs |-> 250,
                             fat |-> 60, fiber |-> 30, micros |-> <<>>]
                       ELSE userProfile.targets]]_vars

\* getTodayLog has returned a synthesized log with the stored profile's targets
C8_ReturnedProfileTargets ==
  \E p \in Procs :
    /\ procs[p].op = "getTodayLog"
    /\ procs[p].pc = "done"
    /\ procs[p].ret.meals = <<>>
    /\ procs[p].ret.date \notin DOMAIN dailyLogs
    /\ userProfile # NoProfile
    /\ procs[p].ret.targets = userProfile.targets

\* C9: updateDailyTargets takes the key of today's local date when it is
\* called; its commit replaces the targets of the log under that key, or
\* creates that log with no meals and zero totals, and leaves the meals
\* table, the meals and totals of that log and every other log unchanged.
C9_UpdateTargetsFrame ==
  [][\A p \in Procs :
       LET k == procs[p].dateStr
           t == procs[p].targets
       IN
       /\ (procs[p].pc = "idle" /\ procs'[p].op = "updateDailyTargets")
            => procs'[p].dateStr = DayKey(Today)
       /\ (procs[p].op = "updateDailyTargets" /\ procs[p].pc = "open"
             /\ procs'[p].pc = "done")
            => /\ meals' = meals
               /\ DOMAIN dailyLogs' = DOMAIN dailyLogs \cup {k}
               /\ \A d \in DOMAIN dailyLogs \ {k} : dailyLogs'[d] = dailyLogs[d]
               /\ dailyLogs'[k] =
                    IF k \in DOMAIN dailyLogs
                    THEN [dailyLogs[k] EXCEPT !.targets = t]
                    ELSE [date |-> k,
                          meals |-> <<>>,
                          totalNutrients |->
                            [calories |-> 0, protein |-> 0, carbs |-> 0,
                             fat |-> 0, fiber |-> 0, sourceDatabase |-> "Custom",
                             micros |-> <<>>],
                          targets |-> t]]_vars

\* updateDailyTargets has replaced the targets of a log that holds meals,
\* while another day's log is stored
C9_TargetsReplaced ==
  \E p \in Procs :
    /\ procs[p].op = "updateDailyTargets"
    /\ procs[p].pc = "done"
    /\ procs[p].log # NoLog
    /\ procs[p].log.meals # <<>>
    /\ procs[p].log.targets # procs[p].targets
    /\ Cardinality(DOMAIN dailyLogs) >= 2

\* C10: every meal in a daily log was stamped with the local calendar day
\* of that log's key, in every timezone, whatever the clock shows.
C10_MealInLocalDayLog ==
  \A d \in DOMAIN dailyLogs :
    \A i \in 1 .. Len(dailyLogs[d].meals) :
      d = DayKey(LocalDayOf(dailyLogs[d].meals[i]))

\* east of UTC, the meal stamped 00:15 local time (the previous day in UTC)
\* has been saved after the clock moved to the next day
C10_EarlyMealSaved ==
  \E p \in Procs :
    /\ tz > 0
    /\ Today = 3
    /\ procs[p].op = "saveMeal"
    /\ procs[p].pc = "done"
    /\ procs[p].meal.id = "a"
    /\ procs[p].meal.timestamp \div MsPerDay = 1
    /\ "a" \in SeqIds(dailyLogs["2024-02-29"].meals)

\* C11: when saveMeal runs for a date that has no daily log, the call
\* succeeds, the meal is in the meals table, and the date has a log that
\* holds exactly that meal, the meal's totals as the day total, and the
\* stored profile's targets (the default targets when no profile is stored).
C11_FirstMealCreatesLog ==
  \A p \in Procs :
    ( /\ procs[p].op = "saveMeal"
      /\ procs[p].pc \in {"done", "failed"}
      /\ procs[p].step >= 3
      /\ procs[p].log = NoLog
      /\ procs[p].err # "StorageError" )
    => /\ procs[p].pc = "done"
       /\ procs[p].meal.id \in DOMAIN meals
       /\ meals[procs[p].meal.id] = procs[p].meal
       /\ procs[p].dateStr \in DOMAIN dailyLogs
       /\ dailyLogs[procs[p].dateStr] =
            [date |-> procs[p].dateStr,
             meals |-> <<procs[p].meal>>,
             totalNutrients |-> procs[p].meal.totalNutrients,
             targets |-> IF userProfile = NoProfile
                         THEN [calories |-> 2000, protein |-> 80, carbs |-> 250,
                               fat |-> 60, fiber |-> 30, micros |-> <<>>]
                         ELSE userProfile.targets]

\* x, an amount in thousandths, as a whole number of hundredths
Hundredths(x) == (x * 100 + 500) \div 1000

\* C12: the commit of a saveMeal on a date that has a log appends the meal
\* to the log's meal list and sets the log's total to the cached total plus
\* the meal's totals (calories to the nearest integer, the other amounts
\* added as hundredths), stores the meal, leaves the log's date and targets
\* alone, and the call never queries the meals of the day.
C12_IncrementalSum ==
  [][\A p \in Procs :
       (procs[p].op = "saveMeal" /\ procs[p].pc = "open" /\ procs'[p].pc = "done")
         => LET k == procs[p].dateStr
                m == procs[p].meal
                t == m.totalNutrients
            IN /\ k \in DOMAIN dailyLogs
               /\ LET old == dailyLogs[k]
                      c == old.totalNutrients
                      new == dailyLogs'[k]
                  IN /\ new.meals = old.meals \o <<m>>
                     /\ new.totalNutrients.calories
                          = ((c.calories + t.calories + 500) \div 1000) * 1000
                     /\ new.totalNutrients.protein
                          = (Hundredths(c.protein) + Hundredths(t.protein)) * 10
                     /\ new.totalNutrients.carbs
                          = (Hundredths(c.carbs) + Hundredths(t.carbs)) * 10
                     /\ new.totalNutrients.fat
                          = (Hundredths(c.fat) + Hundredths(t.fat)) * 10
                     /\ new.totalNutrients.fiber
                          = (Hundredths(c.fiber) + Hundredths(t.fiber)) * 10
                     /\ new.totalNutrients.sourceDatabase = c.sourceDatabase
                     /\ new.date = old.date
                     /\ new.targets = old.targets
               /\ meals' = Put(meals, m.id, m)
               /\ procs[p].rows = <<>>]_vars

\* saveMeal has added a meal to a log that already held a meal with a
\* non-zero total
C12_SecondMealAdded ==
  \E p \in Procs :
    /\ procs[p].op = "saveMeal"
    /\ procs[p].pc = "done"
    /\ procs[p].log # NoLog
    /\ Len(procs[p].log.meals) >= 1
    /\ procs[p].log.totalNutrients.protein > 0
    /\ Len(dailyLogs[procs[p].dateStr].meals) = Len(procs[p].log.meals) + 1

SeqSet(s) == { s[i] : i \in 1 .. Len(s) }

NoDup(s) == Cardinality(SeqSet(s)) = Len(s)

\* C13: after a saveMeal call on a day (a call that met neither a storage
\* failure nor a duplicate id), the day has a total whose micros list holds
\* no string twice and holds exactly the strings of the micros lists of the
\* day's stored meals.
C13_MicrosUnion ==
  \A p \in Procs :
    ( /\ procs[p].op = "saveMeal"
      /\ procs[p].pc \in {"done", "failed"}
      /\ procs[p].err \notin {"StorageError", "ConstraintError"} )
    => /\ procs[p].dateStr \in DOMAIN dailyLogs
       /\ LET micros == dailyLogs[procs[p].dateStr].totalNutrients.micros
              dayMeals == { meals[i] : i \in { j \in DOMAIN meals :
                              getLocalISOString(meals[j].timestamp) = procs[p].dateStr } }
          IN /\ NoDup(micros)
             /\ SeqSet(micros)
                  = UNION { SeqSet(m.totalNutrients.micros) : m \in dayMeals }

\* C14: no saveMeal or deleteMeal call, committed or failed, changes the
\* targets of a daily log that exists, whatever the stored profile says.
C14_TargetsSnapshotKept ==
  [][\A p \in Procs :
       ( /\ procs[p].op \in {"saveMeal", "deleteMeal"}
         /\ procs[p].pc = "open"
         /\ procs'[p].pc \in {"done", "failed"} )
         => \A d \in DOMAIN dailyLogs :
              /\ d \in DOMAIN dailyLogs'
              /\ dailyLogs'[d].targets = dailyLogs[d].targets]_vars

\* saveMeal has added a meal to a log whose targets differ from those of the
\* stored profile, and the log still has its own targets
C14_SavedUnderOldTargets ==
  \E p \in Procs :
    /\ procs[p].op = "saveMeal"
    /\ procs[p].pc = "done"
    /\ procs[p].log # NoLog
    /\ userProfile # NoProfile
    /\ procs[p].log.targets # userProfile.targets
    /\ procs[p].meal.id \in SeqIds(dailyLogs[procs[p].dateStr].meals)
    /\ dailyLogs[procs[p].dateStr].targets = procs[p].log.targets

\* C15: the commit of a saveMeal or deleteMeal changes no daily log other
\* than the one keyed by the local date of the affected meal's timestamp
\* (no log at all when deleteMeal finds no meal), and no meal is ever in the
\* meal lists of two different days.
C15_OnlyAffectedDay ==
  /\ [](\A d1, d2 \in DOMAIN dailyLogs :
          d1 # d2 => SeqIds(dailyLogs[d1].meals) \cap SeqIds(dailyLogs[d2].meals) = {})
  /\ [][\A p \in Procs :
          ( /\ procs[p].op \in {"saveMeal", "deleteMeal"}
            /\ procs[p].pc = "open"
            /\ procs'[p].pc = "done" )
            => LET touched == IF procs[p].meal = NoMeal THEN {}
                              ELSE {DayKey(LocalDayOf(procs[p].meal))}
               IN /\ DOMAIN dailyLogs \subseteq DOMAIN dailyLogs'
                  /\ DOMAIN dailyLogs' \subseteq DOMAIN dailyLogs \cup touched
                  /\ \A d \in DOMAIN dailyLogs \ touched :
                       dailyLogs'[d] = dailyLogs[d]]_vars

\* saveMeal has added a meal of 2024-03-01 while the log of 2024-02-29 holds
\* a meal, and that log does not hold the new meal
C15_OtherDayKept ==
  \E p \in Procs :
    /\ procs[p].op = "saveMeal"
    /\ procs[p].pc = "done"
    /\ procs[p].meal.id = "d"
    /\ "2024-02-29" \in DOMAIN dailyLogs
    /\ dailyLogs["2024-02-29"].meals # <<>>
    /\ "d" \notin SeqIds(dailyLogs["2024-02-29"].meals)
    /\ "d" \in SeqIds(dailyLogs["2024-03-01"].meals)

----------------------------------------------------------------------------
(* Properties of the calculator *)

\* the call of calculateNutrients has ended
CalcEnded == calc.pc \in {"returned", "thrown"}

\* the portion of the call is a number above zero
PositivePortion == calc.portionGrams # NaN /\ calc.portionGrams > 0

\* |a - b|
Distance(a, b) == IF a >= b THEN a - b ELSE b - a

\* C16: a call of calculateNutrients with a foodId that is not in the
\* catalog throws the not-found error and returns no Nutrients, whatever
\* the portion is (positive, zero, negative or NaN).
C16_UnknownFoodFails ==
  (CalcEnded /\ calc.foodId \notin DOMAIN foods)
    => /\ calc.pc = "thrown"
       /\ calc.err = "Food ID not found in database"
       /\ calc.result = NoNutrients

\* calculateNutrients("fake_id", 100) has thrown
C16_FakeIdThrown ==
  /\ calc.pc = "thrown"
  /\ calc.foodId = "fake_id"
  /\ calc.portionGrams = 1000
  /\ "ifct_001" \in DOMAIN foods

\* C17: a call of calculateNutrients for a food of the catalog with a
\* portion that is zero, negative or NaN throws the invalid-portion error
\* and returns no Nutrients.
C17_BadPortionRejected ==
  ( /\ CalcEnded
    /\ calc.foodId \in DOMAIN foods
    /\ (calc.portionGrams = NaN \/ calc.portionGrams <= 0) )
    => /\ calc.pc = "thrown"
       /\ calc.err = "Invalid portion grams"
       /\ calc.result = NoNutrients

\* C18: when calculateNutrients returns for a food of the catalog and a
\* positive portion, calories is a whole number at most one half away from
\* coefficient x portion, protein, carbs, fat and fiber are multiples of 0.1
\* at most 0.05 away from coefficient x portion, and sourceDatabase is the
\* food's source; roti at 40 g returns 120 kcal, 4.0 protein, 24.0 carbs,
\* 2.0 fat, 4.0 fiber, IFCT.
C18_RoundedProducts ==
  /\ (calc.pc = "returned" /\ PositivePortion)
       => LET food == foods[calc.foodId]
              c == food.nutrientsPerGram
              g == calc.portionGrams
              r == calc.result
          IN /\ r.calories % 1000 = 0
             /\ 2 * Distance(r.calories * 10, c.calories * g) <= 10000
             /\ \A f \in {"protein", "carbs", "fat", "fiber"} :
                  /\ r[f] % 100 = 0
                  /\ 2 * Distance(r[f] * 10, c[f] * g) <= 1000
             /\ r.sourceDatabase = food.source
  /\ ( /\ CalcEnded
       /\ foods = NewFoodsMap(nutritionDb)
       /\ calc.foodId = "ifct_001"
       /\ calc.portionGrams = 400 )
       => /\ calc.pc = "returned"
          /\ calc.result = [calories |-> 120000, protein |-> 4000, carbs |-> 24000,
                            fat |-> 2000, fiber |-> 4000, sourceDatabase |-> "IFCT"]

\* calculateNutrients has returned for dal with a fat amount rounded up to
\* the next 0.1
C18_RoundedUp ==
  /\ calc.pc = "returned"
  /\ calc.foodId = "ifct_002"
  /\ PositivePortion
  /\ (foods[calc.foodId].nutrientsPerGram.fat * calc.portionGrams) % 1000 > 500
  /\ calc.result.fat * 10 > foods[calc.foodId].nutrientsPerGram.fat * calc.portionGrams

\* C19: when calculateNutrients returns for an item of the shipped catalog
\* and a positive portion, |calories - (4 protein + 4 carbs + 9 fat)| is at
\* most max(0.2 calories, 20).
C19_AtwaterBound ==
  ( /\ calc.pc = "returned"
    /\ foods = NewFoodsMap(nutritionDb)
    /\ PositivePortion )
    => LET r == calc.result
           d == Distance(r.calories, 4 * r.protein + 4 * r.carbs + 9 * r.fat)
       IN 5 * d <= r.calories \/ d <= 20000

\* calculateNutrients has returned for an item of the shipped catalog with
\* a discrepancy above 15 kcal
C19_ReturnedNearBound ==
  /\ calc.pc = "returned"
  /\ foods = NewFoodsMap(nutritionDb)
  /\ PositivePortion
  /\ Distance(calc.result.calories,
              4 * calc.result.protein + 4 * calc.result.carbs + 9 * calc.result.fat)
       > 15000

\* C20: calculateNutrients throws the data-integrity error exactly when the
\* food is in the catalog, the portion is positive and the discrepancy
\* |calories - (4 protein + 4 carbs + 9 fat)| of the rounded amounts is above
\* max(0.5 calories, 50); when it is above max(0.2 calories, 20) and not
\* above that, the call warns and returns the rounded amounts.
C20_HardThreshold ==
  CalcEnded
    => IF calc.foodId \in DOMAIN foods /\ PositivePortion
       THEN LET food == foods[calc.foodId]
                c == food.nutrientsPerGram
                g == calc.portionGrams
                r == [calories |-> MathRoundRaw(c.calories * g, calc.up.calories),
                      protein  |-> toFixed1(c.protein * g, calc.up.protein),
                      carbs    |-> toFixed1(c.carbs * g, calc.up.carbs),
                      fat      |-> toFixed1(c.fat * g, calc.up.fat),
                      fiber    |-> toFixed1(c.fiber * g, calc.up.fiber),
                      sourceDatabase |-> food.source]
                d == Distance(r.calories, 4 * r.protein + 4 * r.carbs + 9 * r.fat)
                hard == 2 * d > r.calories /\ d > 50000
                soft == 5 * d > r.calories /\ d > 20000
            IN /\ (calc.pc = "thrown") <=> hard
               /\ calc.pc = "thrown" => calc.err = "Sanity check FAILED. Data corrupt."
               /\ (soft /\ ~hard)
                    => calc.pc = "returned" /\ calc.warned /\ calc.result = r
               /\ ~soft => calc.pc = "returned" /\ ~calc.warned /\ calc.result = r
       ELSE calc.err # "Sanity check FAILED. Data corrupt."

\* calculateNutrients has thrown the data-integrity error for an entry whose
\* calories are far below what its macros give
C20_SanityFailed ==
  /\ calc.pc = "thrown"
  /\ calc.err = "Sanity check FAILED. Data corrupt."
  /\ calc.foodId = "x_under"
  /\ calc.warned

\* the outcomes of calculateNutrients for the food of the call and twice its
\* portion
DoubledOutcomes ==
  { calculateNutrients(foods, calc.foodId, 2 * calc.portionGrams, up) : up \in Ties }

\* C21: when calculateNutrients(id, g) and calculateNutrients(id, 2g) both
\* return for a food of the catalog and a positive portion g, the calories of
\* the second differ from twice the calories of the first by at most 1 kcal.
C21_Linearity ==
  (calc.pc = "returned" /\ PositivePortion)
    => \A out \in DoubledOutcomes :
         out.pc = "returned"
           => Distance(out.result.calories, 2 * calc.result.calories) <= 1000

\* for a shipped entry, the calories at 2g are one kcal away from twice the
\* calories at g
C21_OffByOne ==
  /\ calc.pc = "returned"
  /\ PositivePortion
  /\ foods = NewFoodsMap(nutritionDb)
  /\ \E out \in DoubledOutcomes :
       /\ out.pc = "returned"
       /\ Distance(out.result.calories, 2 * calc.result.calories) = 1000

----------------------------------------------------------------------------
(* Properties of the search *)

\* the tokens of the query: its lowercased maximal pieces free of whitespace
QueryTokens ==
  LET q == toLowerCase(search.query)
      Blank(i) == IsWhiteSpace(CharAt(q, i))
  IN { SubSeq(q, a, b) : <<a, b>> \in
         { ab \in (1 .. Len(q)) \X (1 .. Len(q)) :
             /\ ab[1] <= ab[2]
             /\ \A i \in ab[1] .. ab[2] : ~Blank(i)
             /\ (ab[1] = 1 \/ Blank(ab[1] - 1))
             /\ (ab[2] = Len(q) \/ Blank(ab[2] + 1)) } }

\* the lowercased name, and the lowercased aliases, of a catalog entry
LoweredName(f) == toLowerCase(f.name)
LoweredAliases(f) ==
  { toLowerCase(f.nameAliases[i]) : i \in 1 .. Len(f.nameAliases) }

\* every token lies in the name, or some single alias holds every token
EntryMatches(f) ==
  \/ \A t \in QueryTokens : includes(LoweredName(f), t)
  \/ \E alias \in LoweredAliases(f) :
       \A t \in QueryTokens : includes(alias, t)

\* every token lies in the name or in one of the aliases
JointlyCovered(f) ==
  \A t \in QueryTokens :
    \E text \in {LoweredName(f)} \cup LoweredAliases(f) : includes(text, t)

CatalogEntries == { nutritionDb[i] : i \in 1 .. Len(nutritionDb) }
Returned(f) == \E k \in 1 .. Len(search.ret) : search.ret[k] = f

\* C22: for a query with at least one token, an entry searchFoods returns
\* has every token in its lowercased name or every token in one single
\* lowercased alias, and an entry that has is returned unless the list is
\* full (10 entries); an entry whose tokens are covered only jointly by its
\* name and aliases is not returned.
C22_TokenMatch ==
  (search.pc = "returned" /\ QueryTokens # {})
    => \A f \in CatalogEntries :
         /\ Returned(f) => EntryMatches(f)
         /\ (EntryMatches(f) /\ ~Returned(f)) => Len(search.ret) = 10
         /\ (JointlyCovered(f) /\ ~EntryMatches(f)) => ~Returned(f)

\* a query whose tokens lie in two different aliases of roti found nothing
C22_JointCoverageRejected ==
  /\ search.pc = "returned"
  /\ QueryTokens = {"chapati", "phulka"}
  /\ \E f \in CatalogEntries : JointlyCovered(f) /\ ~EntryMatches(f)
  /\ search.ret = <<>>

\* how well an entry answers the query: 3 when its name or an alias is the
\* query, 2 when its name holds every token, 1 when only an alias does
Relevance(f) ==
  LET q == trim(toLowerCase(search.query)) IN
  IF q \in {LoweredName(f)} \cup LoweredAliases(f) THEN 3
  ELSE IF \A t \in QueryTokens : includes(LoweredName(f), t) THEN 2
  ELSE 1

\* C23: searchFoods returns at most 10 entries, no entry after a less
\* relevant one, and no entry it leaves out matches the query better than
\* one it returns.
C23_MostRelevantFirst ==
  search.pc = "returned"
    => /\ Len(search.ret) <= 10
       /\ \A k, l \in 1 .. Len(search.ret) :
            k < l => Relevance(search.ret[k]) >= Relevance(search.ret[l])
       /\ \A f \in CatalogEntries :
            (QueryTokens # {} /\ EntryMatches(f) /\ ~Returned(f))
              => \A k \in 1 .. Len(search.ret) :
                   Relevance(search.ret[k]) >= Relevance(f)

\* C24: searchFoods of a query that is empty or only whitespace returns the
\* empty list.
C24_BlankQuery ==
  (search.pc = "returned" /\ QueryTokens = {}) => search.ret = <<>>

\* a query of tabs and spaces has been answered
C24_WhitespaceAnswered ==
  /\ search.pc = "returned"
  /\ search.query = "\t \t "
  /\ search.ret = <<>>

----------------------------------------------------------------------------
(* Properties of the entry paths *)

\* the nutrients calculateNutrients may return for a MealItem
Recomputed(mi) ==
  { WithMicros(out.result, mi.nutrients.micros) :
    out \in { o \in { calculateNutrients(foods, mi.foodId, mi.portionGrams, up) :
                      up \in Ties } : o.pc = "returned" } }

\* C25: on every entry path, a MealItem made for a name that has a catalog
\* match carries the nutrients calculateNutrients returns for its food and
\* portion, and a MealItem carries the numbers of the AI model, tagged "AI",
\* only when its name has no catalog match.
C25_CatalogRecomputed ==
  entry.pc = "resulted"
    => \A k \in 1 .. Len(entry.items) :
         LET mi == entry.items[k] IN
           /\ mi.nutrients.sourceDatabase = "AI"
                => searchFoods(mi.portionLabel.name) = <<>>
           /\ mi.nutrients.sourceDatabase # "AI"
                => /\ mi.foodId \in DOMAIN foods
                   /\ mi.nutrients \in Recomputed(mi)

----------------------------------------------------------------------------
(* Properties of a day of many small meals *)

\* C26: when a saveMeal of a meal of 0.1 g protein has ended without a
\* storage fault, the meal's day has a log whose total protein is exactly
\* 0.1 g times the number of meals added so far: 10.0 g after 100 meals.
C26_NoDrift ==
  \A p \in Procs :
    ( /\ procs[p].op = "saveMeal"
      /\ procs[p].pc \in {"done", "failed"}
      /\ procs[p].err \notin {"StorageError", "ConstraintError"} )
      => /\ procs[p].pc = "done"
         /\ procs[p].dateStr \in DOMAIN dailyLogs
         /\ LET log == dailyLogs[procs[p].dateStr]
                n == Cardinality(DOMAIN meals)
            IN /\ Len(log.meals) = n
               /\ log.totalNutrients.protein = 100 * n
               /\ n = 100 => log.totalNutrients.protein = 10000

\* with a log in place, the hundredth meal has been added and the total is
\* exactly 10.0 g
SmallMealsAllAdded ==
  /\ Cardinality(DOMAIN meals) = 100
  /\ \E d \in DOMAIN dailyLogs :
       /\ Len(dailyLogs[d].meals) = 100
       /\ dailyLogs[d].totalNutrients.protein = 10000

\* no log ever holds a total protein other than 0.1 g per listed meal
SmallMealsExact ==
  \A d \in DOMAIN dailyLogs :
    dailyLogs[d].totalNutrients.protein = 100 * Len(dailyLogs[d].meals)

----------------------------------------------------------------------------
(* Properties of the logs and the meals table, continued *)

\* the ids of the stored meals that were stamped with the local day of key d
StoredIdsOfKey(d) == { i \in DOMAIN meals : DayKey(LocalDayOf(meals[i])) = d }

\* C27: for every date that has a daily log, the ids of the meals the log
\* lists are exactly the ids of the stored meals stamped with that local
\* date, and every stored meal is listed in the log of its local date.
C27_LogListsStoredMeals ==
  /\ \A d \in DOMAIN dailyLogs : SeqIds(dailyLogs[d].meals) = StoredIdsOfKey(d)
  /\ \A i \in DOMAIN meals :
       LET d == DayKey(LocalDayOf(meals[i])) IN
         /\ d \in DOMAIN dailyLogs
         /\ i \in SeqIds(dailyLogs[d].meals)

\* a saveMeal has succeeded and its meal is stored and listed
C27_SavedMealListed ==
  \E p \in Procs :
    /\ procs[p].op = "saveMeal"
    /\ procs[p].pc = "done"
    /\ procs[p].meal.id \in DOMAIN meals
    /\ procs[p].dateStr \in DOMAIN dailyLogs
    /\ procs[p].meal.id \in SeqIds(dailyLogs[procs[p].dateStr].meals)

\* C28: a deleteMeal whose id is not in the meals table ends, unless the
\* storage itself fails, without an error and without a write: no step of
\* the call changes the meals table or a daily log, and none creates a log.
C28_DeleteUnknownIsNoOp ==
  [][\A p \in Procs :
       ( /\ procs[p].op = "deleteMeal"
         /\ procs[p].pc = "open"
         /\ procs[p].id \notin DOMAIN meals
         /\ procs'[p] # procs[p] )
         => /\ meals' = meals
            /\ dailyLogs' = dailyLogs
            /\ \/ procs'[p].pc = "failed" /\ procs'[p].err = "StorageError"
               \/ /\ procs'[p].pc \in {"open", "done"}
                  /\ procs'[p].err = ""
                  /\ procs'[p].finished \/ procs'[p].pc = "done"
                  /\ procs'[p].meal = NoMeal
                  /\ procs'[p].wm = EmptyMap
                  /\ procs'[p].dm = {}
                  /\ procs'[p].wl = EmptyMap]_vars

\* a deleteMeal of an id that is not stored has ended without an error
C28_UnknownIdDeleted ==
  \E p \in Procs :
    /\ procs[p].op = "deleteMeal"
    /\ procs[p].pc = "done"
    /\ procs[p].id = "zz"
    /\ procs[p].id \notin DOMAIN meals
    /\ procs[p].err = ""

----------------------------------------------------------------------------
(* Properties of the import *)

\* the API key a profile row holds, "" when it holds none
StoredKey(profile) == ExistingKey(profile)

\* C29: when importUserData succeeds, the stored profile holds the API key
\* that was stored before the import if there was one, and never the key of
\* the backup; when it fails, the profile, the logs, the meals and the chat
\* messages are as before.
C29_ApiKeyKept ==
  [][(imp.pc = "called" /\ imp'.pc # "called")
       => /\ imp'.pc = "done"
            => /\ StoredKey(userProfile) # ""
                    => StoredKey(userProfile') = StoredKey(userProfile)
               /\ StoredKey(userProfile') # KeyOfBackup
          /\ imp'.pc = "failed"
            => /\ userProfile' = userProfile
               /\ dailyLogs' = dailyLogs
               /\ meals' = meals
               /\ chatMessages' = chatMessages]_vars

----------------------------------------------------------------------------
(* Properties of analyzeImageWithRetry *)

RetryableClasses == {"rate-limit", "server-overload", "network", "timeout"}
FinalClasses == {"api-key", "forbidden", "safety", "unclassified"}

\* C30: analyzeImageWithRetry ends, with a response or an error, after at
\* most 4 requests to the model; it waits for another attempt only after a
\* rate-limit, server-overload, network or timeout error; an error about the
\* API key, a 403, a SAFETY block or an unclassified error is rethrown by the
\* attempt that met it; apiCache is written only by an attempt that got an
\* answer.
C30_BoundedRetry ==
  /\ [](ai.calls <= 4)
  /\ [][/\ ai'.pc = "waiting" /\ ai.pc # "waiting"
          => ai'.last.class \in RetryableClasses
        /\ \A error \in Failures :
             ( /\ ai.pc = "attempting"
               /\ ai'.calls = ai.calls + 1
               /\ ai'.last = error
               /\ error.class \in FinalClasses )
               => ai'.pc = "thrown" /\ ai'.err = error.msg
        /\ apiCache' # apiCache
             => /\ ai.pc = "attempting"
                /\ ai'.pc = "returned"
                /\ ai'.calls = ai.calls + 1
                /\ ai'.last.class = "none"]_vars
  /\ <>(ai.pc \in {"returned", "thrown"})

\* the fourth request failed with a rate-limit error and the call has thrown
C30_GaveUpAfterFour ==
  /\ ai.pc = "thrown"
  /\ ai.calls = 4
  /\ ai.attempt = 3
  /\ ai.last.class = "rate-limit"

============================================================================
